---- MODULE Spec2Model ----
(***************************************************************************)
(* A model of javaprs: the class-file reader (src/src/classreader.rs), the *)
(* constant pool (src/src/class/mod.rs) and the stack-frame interpreter    *)
(* (src/src/runtime/interpreter.rs).                                       *)
(*                                                                         *)
(* Bytes are numbers 0..255, a Vec<u8> is a sequence of them and a Rust    *)
(* String is the sequence of its UTF-8 bytes.  A Result is a record with   *)
(* the error (NoError when Ok), the value and the buffer as the callee     *)
(* left it: the buffer is a &mut Vec<u8>, so what was consumed before a    *)
(* failure stays consumed.                                                 *)
(***************************************************************************)
EXTENDS Integers, Sequences, FiniteSets, TLC

VARIABLES
    overflow_checks, \* the build: TRUE when integer overflow panics (debug)
    input,           \* reader: the bytes handed to read_class_file
    buffer,          \* reader: the &mut Vec<u8>, what is left to read
    pc,              \* reader: the statement of read_class_file to run next
    index,           \* reader: the loop variable of the running for loop
    cf,              \* reader: the locals of read_class_file read so far
    result,          \* reader: the error of the call (NoError while Ok)
    pool,            \* pool: the ConstantPool the getters are called on
    call,            \* pool: the last getter called, with its index
    ret,             \* pool: what that getter returned
    method,          \* interpreter: the RuntimeMethod handed to interpret
    ip,              \* interpreter: how many instructions the for loop has taken
    stack_frame,     \* interpreter: the StackFrame (locals and operand stack)
    heap,            \* interpreter: the storage of the arrays allocated so far
    outcome          \* interpreter: running, finished, or how interpret ended

vars ==
    <<overflow_checks, input, buffer, pc, index, cf, result, pool, call, ret,
      method, ip, stack_frame, heap, outcome>>

readerVars == <<input, buffer, pc, index, cf, result>>

poolVars == <<pool, call, ret>>

interpVars == <<method, ip, stack_frame, heap, outcome>>

----------------------------------------------------------------------------
(* Errors and results *)

\* A number too wide for a model value (u32, usize) is the pair <<high, low>> of
\* its 16-bit halves: high * 65536 + low.
Wide(n) == <<0, n>>

NoError == [kind |-> "None", num |-> Wide(0), str |-> <<>>]

\* A panic is no ClassReaderError: the thread unwinds and the caller gets no Result.
Panic == [kind |-> "Panic", num |-> Wide(0), str |-> <<>>]

ClassReaderError(kind) == [kind |-> kind, num |-> Wide(0), str |-> <<>>]

ClassReaderErrorNum(kind, n) == [kind |-> kind, num |-> n, str |-> <<>>]

ClassReaderErrorStr(kind, s) == [kind |-> kind, num |-> Wide(0), str |-> s]

ClassReaderErrorKinds ==
    {"EndOfStream", "InvalidMagic", "InvalidConstantTag", "InvalidUtf8",
     "RemainingBytes", "ExpectedAttributeName", "InvalidAttributeName",
     "InvalidStackMapFrame", "InvalidVerificationTypeInfo"}

Ok(v, b) == [err |-> NoError, val |-> v, buf |-> b]

Fail(e, b) == [err |-> e, val |-> 0, buf |-> b]

IsOk(r) == r.err.kind = "None"

----------------------------------------------------------------------------
(* Fixed-width arithmetic *)

U16Max == 65535

\* a - b on u16: the build decides what an underflow does.
SubU16(a, b) ==
    IF a >= b THEN [panic |-> FALSE, val |-> a - b]
    ELSE IF overflow_checks THEN [panic |-> TRUE, val |-> 0]
    ELSE [panic |-> FALSE, val |-> (a - b) % (U16Max + 1)]

Drop(s, n) == SubSeq(s, n + 1, Len(s))

Take(s, n) == SubSeq(s, 1, n)

\* n < w, for a length n and a wide number w
LessThanWide(n, w) ==
    \/ n \div (U16Max + 1) < w[1]
    \/ n \div (U16Max + 1) = w[1] /\ n % (U16Max + 1) < w[2]

\* The value of a wide number that is at most a sequence's length.
Narrow(w) == w[1] * (U16Max + 1) + w[2]

----------------------------------------------------------------------------
(* The byte cursor: classreader.rs, read_u8 .. read_bytes *)

\* The ? operator: an Err leaves the function with that error and the buffer as
\* it is; an Ok goes on with the value and the buffer it left.
Try(r, F(_)) == IF IsOk(r) THEN F(r) ELSE r

read_u8(b) ==
    IF Len(b) > 0 THEN Ok(Head(b), Tail(b))
    ELSE Fail(ClassReaderError("EndOfStream"), b)

read_u16(b) ==
    Try(read_u8(b), LAMBDA b1 :
    Try(read_u8(b1.buf), LAMBDA b2 :
    Ok((b1.val * 256 + b2.val) % (U16Max + 1), b2.buf)))

read_u32(b) ==
    Try(read_u8(b), LAMBDA b1 :
    Try(read_u8(b1.buf), LAMBDA b2 :
    Try(read_u8(b2.buf), LAMBDA b3 :
    Try(read_u8(b3.buf), LAMBDA b4 :
    Ok(<<b1.val * 256 + b2.val, b3.val * 256 + b4.val>>, b4.buf)))))

\* for index in 0..length { entries.push(read_u16(buffer)?) }
RECURSIVE read_u16_array(_, _, _)
read_u16_array(b, length, entries) ==
    IF Len(entries) >= length THEN Ok(entries, b)
    ELSE Try(read_u16(b), LAMBDA entry :
         read_u16_array(entry.buf, length, Append(entries, entry.val)))

\* length is a usize, a wide number
read_bytes(b, length) ==
    IF LessThanWide(Len(b), length) THEN Fail(ClassReaderError("EndOfStream"), b)
    ELSE Ok(Take(b, Narrow(length)), Drop(b, Narrow(length)))

\* String::from_utf8: the well-formed byte sequences of the Unicode standard.
Cont(x) == x >= 128 /\ x <= 191

RECURSIVE ValidUtf8(_)
ValidUtf8(s) ==
    IF Len(s) = 0 THEN TRUE
    ELSE IF s[1] <= 127 THEN ValidUtf8(Drop(s, 1))
    ELSE IF s[1] >= 194 /\ s[1] <= 223
        THEN Len(s) >= 2 /\ Cont(s[2]) /\ ValidUtf8(Drop(s, 2))
    ELSE IF s[1] >= 224 /\ s[1] <= 239
        THEN /\ Len(s) >= 3
             /\ s[2] >= (IF s[1] = 224 THEN 160 ELSE 128)
             /\ s[2] <= (IF s[1] = 237 THEN 159 ELSE 191)
             /\ Cont(s[3])
             /\ ValidUtf8(Drop(s, 3))
    ELSE IF s[1] >= 240 /\ s[1] <= 244
        THEN /\ Len(s) >= 4
             /\ s[2] >= (IF s[1] = 240 THEN 144 ELSE 128)
             /\ s[2] <= (IF s[1] = 244 THEN 143 ELSE 191)
             /\ Cont(s[3])
             /\ Cont(s[4])
             /\ ValidUtf8(Drop(s, 4))
    ELSE FALSE

read_utf8(b, length) ==
    Try(read_bytes(b, length), LAMBDA bytes :
    IF ValidUtf8(bytes.val) THEN bytes
    ELSE Fail(ClassReaderError("InvalidUtf8"), bytes.buf))

----------------------------------------------------------------------------
(* The constant pool: class/mod.rs, ConstantPool *)

\* One shape for every ConstantPoolEntry: a kind, two index fields and a string.
\* Class, String: a = the index.  Fieldref, Methodref: a = class_index,
\* b = name_and_type_index.  NameAndType: a = name_index, b = descriptor_index.
\* Integer: a = bytes, a wide number.  Utf8: s = the string.
Entry(kind, a, b, s) == [kind |-> kind, a |-> a, b |-> b, s |-> s]

Utf8(s) == Entry("Utf8", 0, 0, s)

\* A Result<_, String> of the pool: Ok with the value, Err with the message, or
\* the panic that ends the call with neither.
PoolOk(v) == [status |-> "Ok", val |-> v, msg |-> ""]

PoolErr(m) == [status |-> "Err", val |-> <<>>, msg |-> m]

PoolPanic == [status |-> "Panic", val |-> <<>>, msg |-> ""]

\* The ? operator on a Result<_, String>.
PoolTry(r, F(_)) == IF r.status = "Ok" THEN F(r.val) ELSE r

\* Vec::get((index - 1) as usize) on the difference d
get_slot(entries, d) ==
    IF d.panic THEN PoolPanic
    ELSE IF d.val + 1 <= Len(entries) THEN PoolOk(entries[d.val + 1])
    ELSE PoolErr("Constant pool index out of bounds")

\* ConstantPool::get and get_entry: the entry at logical index i, the out of
\* bounds error for None, or the panic of index - 1.
get_entry(entries, i) == get_slot(entries, SubU16(i, 1))

size(entries) == Len(entries)

\* get_utf8 giving the empty string for an entry that is no Utf8 entry.
get_utf8_defaulting(entries, i) ==
    PoolTry(get_entry(entries, i), LAMBDA entry :
    IF entry.kind = "Utf8" THEN PoolOk(entry.s) ELSE PoolOk(<<>>))

get_utf8(entries, i) ==
    PoolTry(get_entry(entries, i), LAMBDA entry :
    IF entry.kind = "Utf8" THEN PoolOk(entry.s)
    ELSE PoolErr("Expected Utf8 attribute"))

get_class_name(entries, i) ==
    PoolTry(get_entry(entries, i), LAMBDA entry :
    IF entry.kind = "Class" THEN get_utf8(entries, entry.a)
    ELSE PoolErr("Expected Class attribute"))

get_name_and_type(entries, i) ==
    PoolTry(get_entry(entries, i), LAMBDA entry :
    IF entry.kind = "NameAndType" THEN
        PoolTry(get_utf8(entries, entry.a), LAMBDA name :
        PoolTry(get_utf8(entries, entry.b), LAMBDA descriptor :
        PoolOk([name |-> name, descriptor |-> descriptor])))
    ELSE PoolErr("Expected Class attribute"))

get_method_ref(entries, i) ==
    PoolTry(get_entry(entries, i), LAMBDA entry :
    IF entry.kind = "Methodref" THEN
        PoolTry(get_class_name(entries, entry.a), LAMBDA class_name :
        PoolTry(get_name_and_type(entries, entry.b), LAMBDA name_and_type :
        PoolOk([class_name |-> class_name, name_and_type |-> name_and_type])))
    ELSE PoolErr("Expected Class attribute"))

get_field_ref(entries, i) ==
    PoolTry(get_entry(entries, i), LAMBDA entry :
    IF entry.kind = "Fieldref" THEN
        PoolTry(get_class_name(entries, entry.a), LAMBDA class_name :
        PoolTry(get_name_and_type(entries, entry.b), LAMBDA name_and_type :
        PoolOk([class_name |-> class_name, name_and_type |-> name_and_type])))
    ELSE PoolErr("Expected Class attribute"))

----------------------------------------------------------------------------
(* The class-file reader: classreader.rs *)

\* 0xCAFEBABE
MAGIC_NUMBER == <<51966, 47806>>

CONSTANT_METHODREF == 10
CONSTANT_FIELDREF == 9
CONSTANT_CLASS == 7
CONSTANT_UTF8 == 1
CONSTANT_NAME_AND_TYPE == 12
CONSTANT_STRING == 8
CONSTANT_INTEGER == 3

ATTRIBUTE_CODE == <<67, 111, 100, 101>>
ATTRIBUTE_SOURCE_FILE == <<83, 111, 117, 114, 99, 101, 70, 105, 108, 101>>
ATTRIBUTE_LINE_NUMBER_TABLE ==
    <<76, 105, 110, 101, 78, 117, 109, 98, 101, 114, 84, 97, 98, 108, 101>>
ATTRIBUTE_SIGNATURE == <<83, 105, 103, 110, 97, 116, 117, 114, 101>>
ATTRIBUTE_STACK_MAP_TABLE == <<83, 116, 97, 99, 107, 77, 97, 112, 84, 97, 98, 108, 101>>
ATTRIBUTE_EXCEPTIONS == <<69, 120, 99, 101, 112, 116, 105, 111, 110, 115>>

\* read_magic comparing the high half of the number alone.
read_magic_high_half(b) ==
    Try(read_u32(b), LAMBDA magic :
    IF magic.val[1] = MAGIC_NUMBER[1] THEN magic
    ELSE Fail(ClassReaderErrorNum("InvalidMagic", magic.val), magic.buf))

read_magic(b) ==
    Try(read_u32(b), LAMBDA magic :
    IF magic.val = MAGIC_NUMBER THEN magic
    ELSE Fail(ClassReaderErrorNum("InvalidMagic", magic.val), magic.buf))

\* Two u16 operands (Methodref, Fieldref, NameAndType).
read_two_indices(b, kind) ==
    Try(read_u16(b), LAMBDA first :
    Try(read_u16(first.buf), LAMBDA second :
    Ok(Entry(kind, first.val, second.val, <<>>), second.buf)))

\* One u16 operand (Class, String).
read_one_index(b, kind) ==
    Try(read_u16(b), LAMBDA first : Ok(Entry(kind, first.val, 0, <<>>), first.buf))

\* The arm of a Float entry read as an Integer entry is, instead of the error.
unsupported_tag_as_integer(tag, b) ==
    IF tag = 4 THEN
        Try(read_u32(b), LAMBDA bytes : Ok(Entry("Integer", bytes.val, 0, <<>>), bytes.buf))
    ELSE Fail(ClassReaderErrorNum("InvalidConstantTag", Wide(tag)), b)

\* The arm of every other tag (lines 143-146).
unsupported_tag(tag, b) == Fail(ClassReaderErrorNum("InvalidConstantTag", Wide(tag)), b)

\* The match on the tag (read_constant_pool_entry, lines 106-147).
match_tag(tag, b) ==
    IF tag = CONSTANT_METHODREF THEN read_two_indices(b, "Methodref")
    ELSE IF tag = CONSTANT_FIELDREF THEN read_two_indices(b, "Fieldref")
    ELSE IF tag = CONSTANT_CLASS THEN read_one_index(b, "Class")
    ELSE IF tag = CONSTANT_UTF8 THEN
        Try(read_u16(b), LAMBDA length :
        Try(read_utf8(length.buf, Wide(length.val)), LAMBDA string :
        Ok(Utf8(string.val), string.buf)))
    ELSE IF tag = CONSTANT_NAME_AND_TYPE THEN read_two_indices(b, "NameAndType")
    ELSE IF tag = CONSTANT_STRING THEN read_one_index(b, "String")
    ELSE IF tag = CONSTANT_INTEGER THEN
        Try(read_u32(b), LAMBDA bytes : Ok(Entry("Integer", bytes.val, 0, <<>>), bytes.buf))
    ELSE unsupported_tag(tag, b)

read_constant_pool_entry(b) == Try(read_u8(b), LAMBDA tag : match_tag(tag.val, tag.buf))

RECURSIVE read_constant_pool_entries(_, _, _)
read_constant_pool_entries(b, length, entries) ==
    IF Len(entries) >= length THEN Ok(entries, b)
    ELSE Try(read_constant_pool_entry(b), LAMBDA entry :
         read_constant_pool_entries(entry.buf, length, Append(entries, entry.val)))

Info(kind, arg) == [kind |-> kind, arg |-> arg]

read_verification_type_info(b) ==
    Try(read_u8(b), LAMBDA tag :
    IF tag.val = 0 THEN Ok(Info("Top", 0), tag.buf)
    ELSE IF tag.val = 1 THEN Ok(Info("Integer", 0), tag.buf)
    ELSE IF tag.val = 2 THEN Ok(Info("Float", 0), tag.buf)
    ELSE IF tag.val = 3 THEN Ok(Info("Double", 0), tag.buf)
    ELSE IF tag.val = 4 THEN Ok(Info("Long", 0), tag.buf)
    ELSE IF tag.val = 5 THEN Ok(Info("Null", 0), tag.buf)
    ELSE IF tag.val = 6 THEN Ok(Info("UninitializedThis", 0), tag.buf)
    ELSE IF tag.val = 7 THEN
        Try(read_u16(tag.buf), LAMBDA cpool_index :
        Ok(Info("Object", cpool_index.val), cpool_index.buf))
    ELSE IF tag.val = 8 THEN
        Try(read_u16(tag.buf), LAMBDA offset :
        Ok(Info("Uninitialized", offset.val), offset.buf))
    ELSE Fail(ClassReaderErrorNum("InvalidVerificationTypeInfo", Wide(tag.val)), tag.buf))

RECURSIVE read_verification_type_infos(_, _, _)
read_verification_type_infos(b, length, entries) ==
    IF Len(entries) >= length THEN Ok(entries, b)
    ELSE Try(read_verification_type_info(b), LAMBDA entry :
         read_verification_type_infos(entry.buf, length, Append(entries, entry.val)))

\* One shape for every StackMapFrame: kind, offset_delta, locals, stack (the
\* info of a SameLocals1StackItemFrame is its one stack item).
Frame(kind, offset_delta, locals, stack) ==
    [kind |-> kind, offset_delta |-> offset_delta, locals |-> locals, stack |-> stack]

read_stack_map_frame(b) ==
    Try(read_u8(b), LAMBDA frame_type :
    IF frame_type.val <= 63 THEN Ok(Frame("SameFrame", 0, <<>>, <<>>), frame_type.buf)
    ELSE IF frame_type.val <= 127 THEN
        Try(read_verification_type_info(frame_type.buf), LAMBDA info :
        Ok(Frame("SameLocals1StackItemFrame", 0, <<>>, <<info.val>>), info.buf))
    ELSE IF frame_type.val = 247 THEN
        Try(read_verification_type_info(frame_type.buf), LAMBDA info :
        Ok(Frame("SameLocals1StackItemFrameExtended", 0, <<>>, <<info.val>>), info.buf))
    ELSE IF frame_type.val >= 248 /\ frame_type.val <= 250 THEN
        Try(read_u16(frame_type.buf), LAMBDA offset_delta :
        Ok(Frame("ChopFrame", offset_delta.val, <<>>, <<>>), offset_delta.buf))
    ELSE IF frame_type.val = 251 THEN
        Try(read_u16(frame_type.buf), LAMBDA offset_delta :
        Ok(Frame("SameFrameExtended", offset_delta.val, <<>>, <<>>), offset_delta.buf))
    ELSE IF frame_type.val >= 252 /\ frame_type.val <= 254 THEN
        Try(read_u16(frame_type.buf), LAMBDA offset_delta :
        Try(read_verification_type_infos(offset_delta.buf, frame_type.val - 251, <<>>),
            LAMBDA locals :
        Ok(Frame("AppendFrame", offset_delta.val, locals.val, <<>>), locals.buf)))
    ELSE IF frame_type.val = 255 THEN
        Try(read_u16(frame_type.buf), LAMBDA offset_delta :
        Try(read_u16(offset_delta.buf), LAMBDA number_of_locals :
        Try(read_verification_type_infos(number_of_locals.buf, number_of_locals.val, <<>>),
            LAMBDA locals :
        Try(read_u16(locals.buf), LAMBDA number_of_stack_items :
        Try(read_verification_type_infos(number_of_stack_items.buf,
                                         number_of_stack_items.val, <<>>),
            LAMBDA stack :
        Ok(Frame("FullFrame", offset_delta.val, locals.val, stack.val), stack.buf))))))
    ELSE Fail(ClassReaderErrorNum("InvalidStackMapFrame", Wide(frame_type.val)),
              frame_type.buf))

RECURSIVE read_stack_map_frames(_, _, _)
read_stack_map_frames(b, length, entries) ==
    IF Len(entries) >= length THEN Ok(entries, b)
    ELSE Try(read_stack_map_frame(b), LAMBDA entry :
         read_stack_map_frames(entry.buf, length, Append(entries, entry.val)))

read_line_number_table_entry(b) ==
    Try(read_u16(b), LAMBDA start_pc :
    Try(read_u16(start_pc.buf), LAMBDA line_number :
    Ok([start_pc |-> start_pc.val, line_number |-> line_number.val], line_number.buf)))

RECURSIVE read_line_number_table_entries(_, _, _)
read_line_number_table_entries(b, length, entries) ==
    IF Len(entries) >= length THEN Ok(entries, b)
    ELSE Try(read_line_number_table_entry(b), LAMBDA entry :
         read_line_number_table_entries(entry.buf, length, Append(entries, entry.val)))

\* Some(attribute) and None, the two values of attribute_option
Some(attribute) == [some |-> TRUE, attribute |-> attribute]

None == [some |-> FALSE, attribute |-> [kind |-> "None"]]

RECURSIVE read_attribute(_, _), read_attributes(_, _, _, _), attribute_option(_, _, _)

\* The match on the attribute's name (read_attribute, lines 219-261), run on the
\* attribute's own buffer: Some(attribute) with what the decoder left of that
\* buffer, None for a name it does not know, or the decoder's error.
attribute_option(attribute_name, attribute_buffer, cp) ==
    IF attribute_name = ATTRIBUTE_CODE THEN
        Try(read_u16(attribute_buffer), LAMBDA max_stack :
        Try(read_u16(max_stack.buf), LAMBDA max_locals :
        Try(read_u32(max_locals.buf), LAMBDA code_length :
        Try(read_bytes(code_length.buf, code_length.val), LAMBDA code :
        Try(read_u16(code.buf), LAMBDA exception_table_length :
        Try(read_u16(exception_table_length.buf), LAMBDA attributes_count :
        Try(read_attributes(attributes_count.buf, attributes_count.val, cp, <<>>),
            LAMBDA attributes :
        Ok(Some([kind |-> "Code", max_stack |-> max_stack.val,
                 max_locals |-> max_locals.val, code |-> code.val,
                 exceptions |-> <<>>, attributes |-> attributes.val]),
           attributes.buf))))))))
    ELSE IF attribute_name = ATTRIBUTE_STACK_MAP_TABLE THEN
        Try(read_u16(attribute_buffer), LAMBDA number_of_entries :
        Try(read_stack_map_frames(number_of_entries.buf, number_of_entries.val, <<>>),
            LAMBDA entries :
        Ok(Some([kind |-> "StackMapTable", entries |-> entries.val]), entries.buf)))
    ELSE IF attribute_name = ATTRIBUTE_LINE_NUMBER_TABLE THEN
        Try(read_u16(attribute_buffer), LAMBDA line_number_table_length :
        Try(read_line_number_table_entries(line_number_table_length.buf,
                                           line_number_table_length.val, <<>>),
            LAMBDA entries :
        Ok(Some([kind |-> "LineNumberTable", entries |-> entries.val]), entries.buf)))
    ELSE IF attribute_name = ATTRIBUTE_SOURCE_FILE THEN
        Try(read_u16(attribute_buffer), LAMBDA i :
        Ok(Some([kind |-> "SourceFile", index |-> i.val]), i.buf))
    ELSE IF attribute_name = ATTRIBUTE_SIGNATURE THEN
        Try(read_u16(attribute_buffer), LAMBDA i :
        Ok(Some([kind |-> "Signature", index |-> i.val]), i.buf))
    ELSE IF attribute_name = ATTRIBUTE_EXCEPTIONS THEN
        Try(read_u16(attribute_buffer), LAMBDA number_of_exceptions :
        Try(read_u16_array(number_of_exceptions.buf, number_of_exceptions.val, <<>>),
            LAMBDA exception_index :
        Ok(Some([kind |-> "Exceptions", exception_index |-> exception_index.val]),
           exception_index.buf)))
    ELSE Ok(None, attribute_buffer)

\* The final match of read_attribute (lines 263-273) on what the decoder gave;
\* rest is the caller's buffer, already past the attribute's body.
\* The final match passing over an attribute of no known name.
match_attribute_option_skipping(option, attribute_name, rest) ==
    IF ~IsOk(option) THEN Fail(option.err, rest)
    ELSE IF option.val.some THEN
        IF Len(option.buf) > 0 THEN Fail(ClassReaderError("RemainingBytes"), rest)
        ELSE Ok(option.val.attribute, rest)
    ELSE Ok([kind |-> "Skipped"], rest)

\* The final match without the test on what the decoder left.
match_attribute_option_unchecked(option, attribute_name, rest) ==
    IF ~IsOk(option) THEN Fail(option.err, rest)
    ELSE IF option.val.some THEN Ok(option.val.attribute, rest)
    ELSE Fail(ClassReaderErrorStr("InvalidAttributeName", attribute_name), rest)

match_attribute_option(option, attribute_name, rest) ==
    IF ~IsOk(option) THEN Fail(option.err, rest)
    ELSE IF option.val.some THEN
        IF Len(option.buf) > 0 THEN Fail(ClassReaderError("RemainingBytes"), rest)
        ELSE Ok(option.val.attribute, rest)
    ELSE Fail(ClassReaderErrorStr("InvalidAttributeName", attribute_name), rest)

\* Lines 216-217 and on: the name is resolved once the body is cut off.
resolve_attribute(attribute_name, attribute_buffer, rest, cp) ==
    IF attribute_name.status = "Panic" THEN Fail(Panic, rest)
    ELSE IF attribute_name.status = "Err"
        THEN Fail(ClassReaderError("ExpectedAttributeName"), rest)
    ELSE match_attribute_option(attribute_option(attribute_name.val, attribute_buffer, cp),
                                attribute_name.val, rest)

read_attribute(b, cp) ==
    Try(read_u16(b), LAMBDA attribute_name_index :
    Try(read_u32(attribute_name_index.buf), LAMBDA attribute_length :
    Try(read_bytes(attribute_length.buf, attribute_length.val), LAMBDA attribute_buffer :
    resolve_attribute(get_utf8(cp, attribute_name_index.val), attribute_buffer.val,
                      attribute_buffer.buf, cp))))

read_attributes(b, length, cp, entries) ==
    IF Len(entries) >= length THEN Ok(entries, b)
    ELSE Try(read_attribute(b, cp), LAMBDA entry :
         read_attributes(entry.buf, length, cp, Append(entries, entry.val)))

read_field(b, cp) ==
    Try(read_u16(b), LAMBDA access_flags :
    Try(read_u16(access_flags.buf), LAMBDA name_index :
    Try(read_u16(name_index.buf), LAMBDA descriptor_index :
    Try(read_u16(descriptor_index.buf), LAMBDA attributes_count :
    Try(read_attributes(attributes_count.buf, attributes_count.val, cp, <<>>), LAMBDA attributes :
    Ok([access_flags |-> access_flags.val, name_index |-> name_index.val,
        descriptor_index |-> descriptor_index.val, attributes |-> attributes.val],
       attributes.buf))))))

read_method(b, cp) ==
    Try(read_u16(b), LAMBDA access_flags :
    Try(read_u16(access_flags.buf), LAMBDA name_index :
    Try(read_u16(name_index.buf), LAMBDA descriptor_index :
    Try(read_u16(descriptor_index.buf), LAMBDA attributes_count :
    Try(read_attributes(attributes_count.buf, attributes_count.val, cp, <<>>), LAMBDA attributes :
    Ok([access_flags |-> access_flags.val, name_index |-> name_index.val,
        descriptor_index |-> descriptor_index.val, attributes |-> attributes.val],
       attributes.buf))))))

----------------------------------------------------------------------------
(* read_class_file, one statement at a time.  A reader state is the record  *)
(* [pc, buffer, index, cf, result]; each Step operator is one statement of  *)
(* lines 43-79 (one iteration, for the loops of the functions it calls).    *)

EmptyClassFile ==
    [magic |-> Wide(0), minor_version |-> 0, major_version |-> 0, cp_count |-> 0,
     length |-> 0, cp_entries |-> <<>>, access_flags |-> 0, this_class |-> 0,
     super_class |-> 0, interfaces_count |-> 0, interfaces |-> <<>>,
     fields_count |-> 0, fields |-> <<>>, methods_count |-> 0, methods |-> <<>>,
     attributes_count |-> 0, attributes |-> <<>>]

Start(bytes) ==
    [pc |-> "magic", buffer |-> bytes, index |-> 0, cf |-> EmptyClassFile,
     result |-> NoError]

\* The ? operator on a failed read: the error leaves read_class_file at once.
Stop(s, r) == [s EXCEPT !.buffer = r.buf, !.result = r.err, !.pc = "done"]

\* let <field> = <read>?; (r is the read's result)
Let(s, r, field, next) ==
    IF ~IsOk(r) THEN Stop(s, r)
    ELSE [s EXCEPT !.buffer = r.buf, !.cf[field] = r.val, !.pc = next]

\* A count is read and the loop over 0..length entered, or passed when empty.
Enter(s, field, length, loop, after) ==
    [s EXCEPT !.cf[field] = length, !.index = 0,
              !.pc = IF length > 0 THEN loop ELSE after]

\* One iteration of for index in 0..length { entries.push(<read>?) }.
Iterate(s, r, list, length, after) ==
    IF ~IsOk(r) THEN Stop(s, r)
    ELSE [s EXCEPT !.buffer = r.buf, !.cf[list] = Append(@, r.val),
                   !.index = s.index + 1,
                   !.pc = IF s.index + 1 >= length THEN after ELSE s.pc]

\* Line 47: cp_count - 1 entries are read, when the subtraction does not panic.
EnterPool(s, length) ==
    IF length.panic THEN [s EXCEPT !.result = Panic, !.pc = "done"]
    ELSE Enter(s, "length", length.val, "cp_entries", "access_flags")

\* Lines 46-47: cp_count is read and the loop over 0..cp_count - 1 entered.
StoreCpCount(s, r) ==
    IF ~IsOk(r) THEN Stop(s, r)
    ELSE EnterPool([s EXCEPT !.buffer = r.buf, !.cf.cp_count = r.val], SubU16(r.val, 1))

StepCpCount(s) == StoreCpCount(s, read_u16(s.buffer))

\* The pool loop ending one entry early.
StepCpEntry_one_short(s) ==
    Iterate(s, read_constant_pool_entry(s.buffer), "cp_entries", s.cf.length - 1, "access_flags")

StepCpEntry(s) ==
    Iterate(s, read_constant_pool_entry(s.buffer), "cp_entries", s.cf.length, "access_flags")

\* A count followed by its loop: lines 52-53, 54-55, 56-57, 58-59.
StoreCount(s, r, field, loop, after) ==
    IF ~IsOk(r) THEN Stop(s, r)
    ELSE Enter([s EXCEPT !.buffer = r.buf], field, r.val, loop, after)

StepCount(s, field, loop, after) == StoreCount(s, read_u16(s.buffer), field, loop, after)

\* The end of read_class_file without the test on the buffer.
StepFinish_unchecked(s) == [s EXCEPT !.pc = "done"]

\* Lines 75-79: Ok(class_file) when nothing is left, RemainingBytes otherwise.
StepFinish(s) ==
    IF Len(s.buffer) = 0 THEN [s EXCEPT !.pc = "done"]
    ELSE [s EXCEPT !.pc = "done", !.result = ClassReaderError("RemainingBytes")]

\* The statement of read_class_file at s.pc (lines 43-79).
Step(s) ==
    CASE s.pc = "magic" -> Let(s, read_magic(s.buffer), "magic", "minor_version")
      [] s.pc = "minor_version" -> Let(s, read_u16(s.buffer), "minor_version", "major_version")
      [] s.pc = "major_version" -> Let(s, read_u16(s.buffer), "major_version", "cp_count")
      [] s.pc = "cp_count" -> StepCpCount(s)
      [] s.pc = "cp_entries" -> StepCpEntry(s)
      [] s.pc = "access_flags" -> Let(s, read_u16(s.buffer), "access_flags", "this_class")
      [] s.pc = "this_class" -> Let(s, read_u16(s.buffer), "this_class", "super_class")
      [] s.pc = "super_class" ->
           Let(s, read_u16(s.buffer), "super_class", "interfaces_count")
      [] s.pc = "interfaces_count" ->
           StepCount(s, "interfaces_count", "interfaces", "fields_count")
      [] s.pc = "interfaces" ->
           Iterate(s, read_u16(s.buffer), "interfaces", s.cf.interfaces_count,
                   "fields_count")
      [] s.pc = "fields_count" -> StepCount(s, "fields_count", "fields", "methods_count")
      [] s.pc = "fields" ->
           Iterate(s, read_field(s.buffer, s.cf.cp_entries), "fields",
                   s.cf.fields_count, "methods_count")
      [] s.pc = "methods_count" -> StepCount(s, "methods_count", "methods", "attributes_count")
      [] s.pc = "methods" ->
           Iterate(s, read_method(s.buffer, s.cf.cp_entries), "methods",
                   s.cf.methods_count, "attributes_count")
      [] s.pc = "attributes_count" -> StepCount(s, "attributes_count", "attributes", "finish")
      [] s.pc = "attributes" ->
           Iterate(s, read_attribute(s.buffer, s.cf.cp_entries), "attributes",
                   s.cf.attributes_count, "finish")
      [] s.pc = "finish" -> StepFinish(s)
      [] OTHER -> s

RECURSIVE Run(_)
Run(s) == IF s.pc = "done" THEN s ELSE Run(Step(s))

\* The whole call: the reader state read_class_file ends in on these bytes.
read_class_file(bytes) == Run(Start(bytes))

----------------------------------------------------------------------------
(* The class-file format, written the other way round: bytes from values.   *)
(* Nothing of the program: it builds the inputs and states the claims.      *)

U16(n) == <<(n \div 256) % 256, n % 256>>

U32(w) == U16(w[1]) \o U16(w[2])

RECURSIVE Flatten(_)
Flatten(ss) == IF Len(ss) = 0 THEN <<>> ELSE Head(ss) \o Flatten(Tail(ss))

EncodeEntry(e) ==
    CASE e.kind = "Utf8" -> <<CONSTANT_UTF8>> \o U16(Len(e.s)) \o e.s
      [] e.kind = "Class" -> <<CONSTANT_CLASS>> \o U16(e.a)
      [] e.kind = "String" -> <<CONSTANT_STRING>> \o U16(e.a)
      [] e.kind = "Integer" -> <<CONSTANT_INTEGER>> \o U32(e.a)
      [] e.kind = "Methodref" -> <<CONSTANT_METHODREF>> \o U16(e.a) \o U16(e.b)
      [] e.kind = "Fieldref" -> <<CONSTANT_FIELDREF>> \o U16(e.a) \o U16(e.b)
      [] e.kind = "NameAndType" -> <<CONSTANT_NAME_AND_TYPE>> \o U16(e.a) \o U16(e.b)

EncodePool(entries) == Flatten([i \in 1..Len(entries) |-> EncodeEntry(entries[i])])

\* magic, minor version 0, major version 52
Prologue == U32(MAGIC_NUMBER) \o U16(0) \o U16(52)

\* access_flags, this_class, super_class and four empty lists
Members(interfaces, fields, methods, attributes) ==
    U16(33) \o U16(1) \o U16(0)
    \o U16(Len(interfaces)) \o Flatten([i \in 1..Len(interfaces) |-> U16(interfaces[i])])
    \o U16(Len(fields)) \o Flatten(fields)
    \o U16(Len(methods)) \o Flatten(methods)
    \o U16(Len(attributes)) \o Flatten(attributes)

EncodeAttribute(name_index, body) == U16(name_index) \o U32(Wide(Len(body))) \o body

EncodeMember(name_index, descriptor_index, attributes) ==
    U16(1) \o U16(name_index) \o U16(descriptor_index)
    \o U16(Len(attributes)) \o Flatten(attributes)

SeqsUpTo(S, n) == UNION {[1..k -> S] : k \in 0..n}

----------------------------------------------------------------------------
(* The inputs of read_class_file the model runs on *)

MaxShortLen == 5
MaxPoolLen == 2
MaxSlack == 1
MaxTrailing == 1

\* The four bytes of the magic number and a zero.
ByteAlphabet == {0, 202, 254, 186, 190}

\* Every short byte sequence: bad magics, truncated prologues.
ShortInputs == SeqsUpTo(ByteAlphabet, MaxShortLen)

\* One entry of every tag the reader supports, and strings of one and two bytes.
EntryMenu ==
    {Utf8(<<65>>), Utf8(<<195, 169>>), Entry("Class", 1, 0, <<>>),
     Entry("NameAndType", 1, 2, <<>>), Entry("Methodref", 3, 4, <<>>),
     Entry("Fieldref", 3, 4, <<>>), Entry("String", 1, 0, <<>>),
     Entry("Integer", <<4660, 22136>>, 0, <<>>)}

NoMembers == Members(<<>>, <<>>, <<>>, <<>>)

\* Well-formed pools with the right count, a count one off either way, and 0.
PoolInputsOf(p) ==
    {Prologue \o U16(c) \o EncodePool(p) \o NoMembers :
        c \in {0, Len(p), Len(p) + 1, Len(p) + 2}}

PoolInputs == UNION {PoolInputsOf(p) : p \in SeqsUpTo(EntryMenu, MaxPoolLen)}

\* Every tag byte, followed by operands any supported entry can read, by a
\* string that is not UTF-8, or by nothing.
TagInputs ==
    {Prologue \o U16(2) \o <<t>> \o operands \o NoMembers :
        t \in 0..255, operands \in {<<0, 1, 65, 0>>, <<0, 1, 255, 0>>}}
    \cup {Prologue \o U16(2) \o <<t>> : t \in 0..255}

\* The names the reader knows, one it does not, a Class entry and the empty name.
NamePool ==
    <<Utf8(ATTRIBUTE_CODE), Utf8(ATTRIBUTE_SOURCE_FILE), Utf8(ATTRIBUTE_LINE_NUMBER_TABLE),
      Utf8(ATTRIBUTE_SIGNATURE), Utf8(ATTRIBUTE_STACK_MAP_TABLE),
      Utf8(ATTRIBUTE_EXCEPTIONS), Utf8(<<70, 111, 111>>), Entry("Class", 7, 0, <<>>),
      Utf8(<<>>)>>

BodyIndex == <<0, 7>>
BodyExceptions == <<0, 1, 0, 8>>
BodyLines == <<0, 1, 0, 0, 0, 7>>
\* SameFrame, SameLocals1StackItem (Integer), its extended form (Object 8), Chop,
\* SameFrameExtended, Append (Uninitialized 1), FullFrame (1 local, 1 stack item)
BodyFrames ==
    <<0, 7, 0, 64, 1, 247, 7, 0, 8, 248, 0, 0, 251, 0, 0, 252, 0, 0, 8, 0, 1,
      255, 0, 0, 0, 1, 2, 0, 1, 0>>
BodyBadFrame == <<0, 1, 128>>
BodyBadInfo == <<0, 1, 64, 9>>
\* max_stack 2, max_locals 1, the code [return], then the exception table
\* length and the nested attributes
CodeHead == <<0, 2, 0, 1>> \o U32(Wide(1)) \o <<177>>
BodyCode == CodeHead \o U16(0) \o U16(0)
BodyCodeLines == CodeHead \o U16(0) \o U16(1) \o EncodeAttribute(3, BodyLines)
BodyCodeFoo == CodeHead \o U16(0) \o U16(1) \o EncodeAttribute(7, <<>>)
BodyCodeHandler == CodeHead \o U16(1) \o <<0, 0, 0, 1, 0, 1, 0, 8>> \o U16(0)

Bodies ==
    {BodyIndex, BodyExceptions, BodyLines, BodyFrames, BodyBadFrame, BodyBadInfo,
     BodyCode, BodyCodeLines, BodyCodeFoo, BodyCodeHandler}

\* One top-level attribute: every name index, every body, every declared
\* length from 0 to past the bytes that follow.
AttributeInputsOf(body) ==
    {Prologue \o U16(Len(NamePool) + 1) \o EncodePool(NamePool)
        \o U16(33) \o U16(8) \o U16(0) \o U16(0) \o U16(0) \o U16(0) \o U16(1)
        \o U16(n) \o U32(Wide(l)) \o body :
        n \in 0..(Len(NamePool) + 1), l \in 0..(Len(body) + MaxSlack)}

AttributeInputs == UNION {AttributeInputsOf(body) : body \in Bodies}

\* A class with an interface, a field, a method with code, and a source file.
FullPool ==
    NamePool \o <<Entry("NameAndType", 7, 9, <<>>), Entry("Methodref", 8, 10, <<>>),
                  Entry("Fieldref", 8, 10, <<>>), Entry("String", 7, 0, <<>>),
                  Entry("Integer", Wide(42), 0, <<>>)>>

FullClass ==
    Prologue \o U16(Len(FullPool) + 1) \o EncodePool(FullPool)
    \o Members(<<8>>,
               <<EncodeMember(7, 9, <<EncodeAttribute(4, BodyIndex)>>)>>,
               <<EncodeMember(7, 9, <<EncodeAttribute(1, BodyCodeLines),
                                      EncodeAttribute(6, BodyExceptions)>>)>>,
               <<EncodeAttribute(2, BodyIndex)>>)

MutationBytes == {0, 1, 255}

\* The full class cut short at every length, and with any one byte replaced.
FullInputs ==
    {Take(FullClass, n) : n \in 0..Len(FullClass)}
    \cup {[FullClass EXCEPT ![i] = v] : i \in 1..Len(FullClass), v \in MutationBytes}

BaseInputs == ShortInputs \cup PoolInputs \cup TagInputs \cup AttributeInputs \cup FullInputs

\* Every input, and every input followed by up to MaxTrailing more bytes.
Inputs ==
    {bytes \o extra : bytes \in BaseInputs, extra \in SeqsUpTo({0}, MaxTrailing)}

----------------------------------------------------------------------------
(* The reader as a state machine: read_class_file on one input *)

Reader == [pc |-> pc, buffer |-> buffer, index |-> index, cf |-> cf, result |-> result]

Advance(s) ==
    /\ pc' = s.pc
    /\ buffer' = s.buffer
    /\ index' = s.index
    /\ cf' = s.cf
    /\ result' = s.result
    /\ UNCHANGED <<overflow_checks, input, poolVars, interpVars>>

PoolIdle == pool = <<>> /\ call = <<>> /\ ret = <<>>

InterpIdle ==
    /\ method = <<>>
    /\ ip = 0
    /\ stack_frame = <<>>
    /\ heap = <<>>
    /\ outcome = <<>>

InitReader ==
    /\ overflow_checks \in BOOLEAN
    /\ input \in Inputs
    /\ buffer = input
    /\ pc = "magic"
    /\ index = 0
    /\ cf = EmptyClassFile
    /\ result = NoError
    /\ PoolIdle
    /\ InterpIdle

ReadMagic == pc = "magic" /\ Advance(Step(Reader))
ReadMinorVersion == pc = "minor_version" /\ Advance(Step(Reader))
ReadMajorVersion == pc = "major_version" /\ Advance(Step(Reader))
ReadCpCount == pc = "cp_count" /\ Advance(Step(Reader))
ReadConstantPoolEntry == pc = "cp_entries" /\ Advance(Step(Reader))
ReadAccessFlags == pc = "access_flags" /\ Advance(Step(Reader))
ReadThisClass == pc = "this_class" /\ Advance(Step(Reader))
ReadSuperClass == pc = "super_class" /\ Advance(Step(Reader))
ReadInterfacesCount == pc = "interfaces_count" /\ Advance(Step(Reader))
ReadInterface == pc = "interfaces" /\ Advance(Step(Reader))
ReadFieldsCount == pc = "fields_count" /\ Advance(Step(Reader))
ReadField == pc = "fields" /\ Advance(Step(Reader))
ReadMethodsCount == pc = "methods_count" /\ Advance(Step(Reader))
ReadMethod == pc = "methods" /\ Advance(Step(Reader))
ReadAttributesCount == pc = "attributes_count" /\ Advance(Step(Reader))
ReadAttribute == pc = "attributes" /\ Advance(Step(Reader))
Finish == pc = "finish" /\ Advance(Step(Reader))

NextReader ==
    \/ ReadMagic
    \/ ReadMinorVersion
    \/ ReadMajorVersion
    \/ ReadCpCount
    \/ ReadConstantPoolEntry
    \/ ReadAccessFlags
    \/ ReadThisClass
    \/ ReadSuperClass
    \/ ReadInterfacesCount
    \/ ReadInterface
    \/ ReadFieldsCount
    \/ ReadField
    \/ ReadMethodsCount
    \/ ReadMethod
    \/ ReadAttributesCount
    \/ ReadAttribute
    \/ Finish

SpecReader == InitReader /\ [][NextReader]_vars

----------------------------------------------------------------------------
(* Claims about the reader *)

Done == pc = "done"

Succeeded == Done /\ result = NoError

\* What read_class_file has taken from the input so far.
Consumed == Len(input) - Len(buffer)

IsPrefix(p, q) == Len(p) <= Len(q) /\ Take(q, Len(p)) = p

\* The state read_class_file ends in on bytes fails with exactly this kind.
EndsWith(s, kind) == s.pc = "done" /\ s.result.kind = kind

ExtraBytes == {0, 1, 202, 255}

\* C1: whenever read_class_file succeeds the buffer is empty at return, and
\* the same input followed by one more byte fails with RemainingBytes.
C1_ExactConsumption ==
    Succeeded =>
        /\ buffer = <<>>
        /\ \A x \in ExtraBytes : EndsWith(read_class_file(Append(input, x)), "RemainingBytes")

\* A whole class (pool, interface, field, method with code, attribute) was read.
C1_Witness ==
    /\ Succeeded
    /\ Len(cf.cp_entries) > 0
    /\ Len(cf.interfaces) > 0
    /\ Len(cf.fields) > 0
    /\ Len(cf.methods) > 0
    /\ Len(cf.attributes) > 0

\* The first four bytes of the input as a big-endian u32 (a wide number).
BigEndian32(bytes) == <<bytes[1] * 256 + bytes[2], bytes[3] * 256 + bytes[4]>>

BadMagic == Len(input) >= 4 /\ BigEndian32(input) # MAGIC_NUMBER

\* C2: an input of at least 4 bytes whose first 4 bytes are not 0xCAFEBABE
\* fails with InvalidMagic carrying those 4 bytes as a big-endian number, and
\* nothing but those 4 bytes has been taken from the buffer.
C2_InvalidMagic ==
    (BadMagic /\ pc # "magic") =>
        /\ Done
        /\ result = ClassReaderErrorNum("InvalidMagic", BigEndian32(input))
        /\ buffer = Drop(input, 4)

\* A bad magic was refused with bytes after it still in the buffer.
C2_Witness ==
    /\ Done
    /\ result.kind = "InvalidMagic"
    /\ result.num # <<0, 0>>
    /\ Len(buffer) > 0

\* The bytes of the input from the first constant-pool entry on.
PoolBytes == Drop(input, 10)

PastPool == pc \notin {"magic", "minor_version", "major_version", "cp_count", "cp_entries"}

\* The pool loop ended with an error while reading an entry.
FailedInPool ==
    /\ Done
    /\ result.kind \in ClassReaderErrorKinds
    /\ Consumed >= 10
    /\ Len(cf.cp_entries) < cf.length

\* The bytes at which the entry that failed starts.
FailedEntryBytes == Drop(PoolBytes, Len(EncodePool(cf.cp_entries)))

\* C3: a pool of well-formed entries of the supported tags, declared with count
\* c, is read as exactly c - 1 entries, which are the entries of the input in
\* the input's order: encoded again, one after the other, they are the bytes
\* read_class_file took for the pool; and no well-formed entry is refused.
C3_PoolEntries ==
    /\ (PastPool /\ (Done => result = NoError) /\ cf.cp_count >= 1) =>
            /\ Len(cf.cp_entries) = cf.cp_count - 1
            /\ IsPrefix(EncodePool(cf.cp_entries), PoolBytes)
    /\ (pc \in {"cp_entries", "access_flags"}) =>
            /\ Len(cf.cp_entries) = index
            /\ EncodePool(cf.cp_entries) = Take(PoolBytes, Consumed - 10)
    /\ FailedInPool =>
            \A e \in EntryMenu : ~IsPrefix(EncodeEntry(e), FailedEntryBytes)

\* Two different entries were read, in their order, and the pool is complete.
C3_Witness ==
    /\ pc = "access_flags"
    /\ cf.cp_count = 3
    /\ Len(cf.cp_entries) = 2
    /\ cf.cp_entries[1].kind = "Utf8"
    /\ cf.cp_entries[2].kind = "Methodref"

SupportedTags ==
    {CONSTANT_METHODREF, CONSTANT_FIELDREF, CONSTANT_CLASS, CONSTANT_UTF8,
     CONSTANT_NAME_AND_TYPE, CONSTANT_STRING, CONSTANT_INTEGER}

\* The bytes an entry of this tag has after the tag are all in b.
OperandsPresent(tag, b) ==
    IF tag \in {CONSTANT_CLASS, CONSTANT_STRING} THEN Len(b) >= 2
    ELSE IF tag = CONSTANT_UTF8 THEN Len(b) >= 2 /\ Len(b) >= 2 + b[1] * 256 + b[2]
    ELSE Len(b) >= 4

\* C4: reading a pool entry whose tag byte is one of 10, 9, 7, 1, 12, 8, 3
\* never gives InvalidConstantTag, and gives the entry when its operands are
\* there (a Utf8 entry may still hold bytes that are no UTF-8); any other tag
\* byte ends read_class_file with InvalidConstantTag carrying that byte.
C4_ConstantTags ==
    [][(pc = "cp_entries" /\ Len(buffer) > 0) =>
        IF Head(buffer) \in SupportedTags
        THEN /\ result'.kind \in {"None", "EndOfStream", "InvalidUtf8"}
             /\ (OperandsPresent(Head(buffer), Tail(buffer)) /\ result'.kind # "InvalidUtf8")
                    => /\ result' = NoError
                       /\ Len(cf'.cp_entries) = Len(cf.cp_entries) + 1
        ELSE /\ pc' = "done"
             /\ result' = ClassReaderErrorNum("InvalidConstantTag", Wide(Head(buffer)))
             /\ cf'.cp_entries = cf.cp_entries]_vars

\* The tag of a Long entry was refused.
C4_Witness ==
    /\ Done
    /\ result = ClassReaderErrorNum("InvalidConstantTag", Wide(5))
    /\ Consumed = 11

\* The header of the attribute at the head of b: its name index and its length.
AttrNameIndex(b) == b[1] * 256 + b[2]

AttrLength(b) == <<b[3] * 256 + b[4], b[5] * 256 + b[6]>>

\* The header of an attribute and as many bytes as it declares are all in b.
AttrComplete(b) == Len(b) >= 6 /\ ~LessThanWide(Len(b) - 6, AttrLength(b))

AttrBody(b) == Take(Drop(b, 6), Narrow(AttrLength(b)))

AttrRest(b) == Drop(b, 6 + Narrow(AttrLength(b)))

RecognizedNames ==
    {ATTRIBUTE_CODE, ATTRIBUTE_SOURCE_FILE, ATTRIBUTE_LINE_NUMBER_TABLE,
     ATTRIBUTE_SIGNATURE, ATTRIBUTE_STACK_MAP_TABLE, ATTRIBUTE_EXCEPTIONS}

\* Entry n of the pool is there and is a Utf8 string.
NamedUtf8(cp, n) == n \in 1..Len(cp) /\ cp[n].kind = "Utf8"

AttrName(b, cp) == cp[AttrNameIndex(b)].s

\* b starts with a whole attribute named by a Utf8 string that is / is not one
\* of the six recognized names.
KnownAttributeAt(b, cp) ==
    /\ AttrComplete(b)
    /\ NamedUtf8(cp, AttrNameIndex(b))
    /\ AttrName(b, cp) \in RecognizedNames

UnknownAttributeAt(b, cp) ==
    /\ AttrComplete(b)
    /\ NamedUtf8(cp, AttrNameIndex(b))
    /\ AttrName(b, cp) \notin RecognizedNames

\* The bytes of a Code body from its first nested attribute on, when the body
\* has no exception handlers and declares at least one nested attribute.
CodeLength(body) == <<body[5] * 256 + body[6], body[7] * 256 + body[8]>>

HasNested(body) ==
    /\ Len(body) >= 8
    /\ ~LessThanWide(Len(body) - 8, CodeLength(body))
    /\ Len(body) >= 12 + Narrow(CodeLength(body))
    /\ body[9 + Narrow(CodeLength(body))] = 0
    /\ body[10 + Narrow(CodeLength(body))] = 0
    /\ body[11 + Narrow(CodeLength(body))] * 256 + body[12 + Narrow(CodeLength(body))] >= 1

Nested(body) == Drop(body, 12 + Narrow(CodeLength(body)))

\* b starts with a whole Code attribute whose first nested attribute is whole
\* and has a Utf8 name that is not recognized.
UnknownNestedAt(b, cp) ==
    /\ KnownAttributeAt(b, cp)
    /\ AttrName(b, cp) = ATTRIBUTE_CODE
    /\ HasNested(AttrBody(b))
    /\ UnknownAttributeAt(Nested(AttrBody(b)), cp)

\* The first attribute read from b is, or holds as its first nested attribute,
\* a whole attribute of an unrecognized Utf8 name; and that name.
UnknownFirst(b, cp) == UnknownAttributeAt(b, cp) \/ UnknownNestedAt(b, cp)

UnknownName(b, cp) ==
    IF UnknownAttributeAt(b, cp) THEN AttrName(b, cp)
    ELSE AttrName(Nested(AttrBody(b)), cp)

\* The bytes of a field or a method from its first attribute on, when it
\* declares one.
HasAttributes(b) == Len(b) >= 8 /\ b[7] * 256 + b[8] >= 1

MemberAttributes(b) == Drop(b, 8)

\* The bytes at which the next step of read_class_file reads an attribute first.
AtAttribute ==
    \/ pc = "attributes"
    \/ pc \in {"fields", "methods"} /\ HasAttributes(buffer)

NextAttribute == IF pc = "attributes" THEN buffer ELSE MemberAttributes(buffer)

\* C6: an attribute whose header and declared body are in the buffer and whose
\* name index resolves to a Utf8 string that is none of the six recognized
\* names ends read_class_file with InvalidAttributeName carrying that string:
\* as an attribute of the class, of a field, of a method, or nested in Code.
\* Nothing is appended and nothing is read after it.
C6_InvalidAttributeName ==
    [][(AtAttribute /\ UnknownFirst(NextAttribute, cf.cp_entries)) =>
        /\ pc' = "done"
        /\ result' = ClassReaderErrorStr("InvalidAttributeName",
                                         UnknownName(NextAttribute, cf.cp_entries))
        /\ cf' = cf]_vars

\* An attribute named Foo was refused with bytes after it still in the buffer.
C6_Witness ==
    /\ Done
    /\ result = ClassReaderErrorStr("InvalidAttributeName", <<70, 111, 111>>)
    /\ Len(buffer) > 0

\* What the decoder of the attribute at the head of b gives on the attribute's
\* body alone.
Decoded(b, cp) == attribute_option(AttrName(b, cp), AttrBody(b), cp)

\* The outcome read_attribute must have on b, given the decoder's outcome d.
Exactly(d, before, after, r) ==
    /\ (IsOk(d) /\ d.val.some /\ Len(d.buf) > 0) => r = ClassReaderError("RemainingBytes")
    /\ (IsOk(d) /\ d.val.some /\ Len(d.buf) = 0) => r = NoError
    /\ ~IsOk(d) => r = d.err
    /\ r = NoError => IsOk(d) /\ Len(d.buf) = 0
    /\ after = AttrRest(before)

\* C7: a recognized attribute whose header and declared body are in the buffer
\* is read successfully only when its decoder used up the declared length:
\* bytes left in the body fail with RemainingBytes, a decoder that runs out of
\* body fails with its error, and in every case the buffer has lost the header
\* and the declared body and nothing more.
C7_DeclaredLength ==
    [][(pc = "attributes" /\ KnownAttributeAt(buffer, cf.cp_entries)) =>
        /\ Exactly(Decoded(buffer, cf.cp_entries), buffer, buffer', result')
        /\ result' = NoError =>
                cf'.attributes = Append(cf.attributes,
                                        Decoded(buffer, cf.cp_entries).val.attribute)
        /\ result' # NoError => pc' = "done" /\ cf' = cf]_vars

\* A recognized attribute of the class was refused for the bytes its decoder left.
C7_Witness ==
    /\ Done
    /\ result = ClassReaderError("RemainingBytes")
    /\ Len(cf.attributes) < cf.attributes_count
    /\ Len(cf.methods) = cf.methods_count

----------------------------------------------------------------------------
(* The constant pool as a state machine: the getters called on one pool *)

MaxProbe == 9

\* A pool in which every getter has an index it succeeds on.
PoolBase ==
    <<Utf8(<<65>>), Utf8(<<66>>), Entry("Class", 1, 0, <<>>),
      Entry("NameAndType", 1, 2, <<>>), Entry("Methodref", 3, 4, <<>>),
      Entry("Fieldref", 3, 4, <<>>), Entry("String", 1, 0, <<>>),
      Entry("Integer", <<0, 7>>, 0, <<>>)>>

\* Index operands: no entry (0, MaxProbe), a Utf8, a Class, a NameAndType.
IndexChoices == {0, 1, 3, 4, MaxProbe}

Replacements ==
    {Utf8(<<67>>), Entry("Integer", <<0, 7>>, 0, <<>>)}
    \cup {Entry(kind, a, 0, <<>>) : kind \in {"Class", "String"}, a \in IndexChoices}
    \cup {Entry(kind, a, b, <<>>) :
            kind \in {"NameAndType", "Methodref", "Fieldref"},
            a \in IndexChoices, b \in IndexChoices}

\* The entries of the base pool that a getter can be asked for or can follow.
Replaced == {k \in 1..Len(PoolBase) : PoolBase[k].kind \notin {"String", "Integer"}}

\* The base pool, its prefixes, and the base pool with one entry replaced.
Pools ==
    {Take(PoolBase, n) : n \in 0..Len(PoolBase)}
    \cup {[PoolBase EXCEPT ![k] = e] : k \in Replaced, e \in Replacements}

\* The indices asked for: every entry but the last two, none (0, MaxProbe), and
\* the greatest u16.
Probes == (0..Len(PoolBase) - 2) \cup {MaxProbe, U16Max}

ReaderIdle ==
    /\ input = <<>>
    /\ buffer = <<>>
    /\ pc = "idle"
    /\ index = 0
    /\ cf = EmptyClassFile
    /\ result = NoError

InitPool ==
    /\ overflow_checks \in BOOLEAN
    /\ pool \in Pools
    /\ call = <<>>
    /\ ret = <<>>
    /\ ReaderIdle
    /\ InterpIdle

Answer(name, i, r) ==
    /\ call' = <<name, i>>
    /\ ret' = r
    /\ UNCHANGED <<overflow_checks, pool, readerVars, interpVars>>

GetEntry == \E i \in Probes : Answer("get_entry", i, get_entry(pool, i))

GetUtf8 == \E i \in Probes : Answer("get_utf8", i, get_utf8(pool, i))

GetClassName == \E i \in Probes : Answer("get_class_name", i, get_class_name(pool, i))

GetNameAndType == \E i \in Probes : Answer("get_name_and_type", i, get_name_and_type(pool, i))

GetMethodRef == \E i \in Probes : Answer("get_method_ref", i, get_method_ref(pool, i))

GetFieldRef == \E i \in Probes : Answer("get_field_ref", i, get_field_ref(pool, i))

NextPool ==
    \/ GetEntry
    \/ GetUtf8
    \/ GetClassName
    \/ GetNameAndType
    \/ GetMethodRef
    \/ GetFieldRef

SpecPool == InitPool /\ [][NextPool]_vars

----------------------------------------------------------------------------
(* Claims about the constant pool *)

\* What is at logical index i of p: "ok" for an entry of kind k, "wrong" for
\* an entry of another kind, "absent" for no entry.
At(p, i, k) ==
    IF i \notin 1..Len(p) THEN "absent"
    ELSE IF p[i].kind = k THEN "ok"
    ELSE "wrong"

\* The first finding that is not "ok", of v and then of w.
AndThen(v, w) == IF v = "ok" THEN w ELSE v

\* The first thing that is not as it should be along the indices a getter
\* follows, in the order it follows them.
Utf8Path(p, i) == At(p, i, "Utf8")

ClassPath(p, i) == AndThen(At(p, i, "Class"), Utf8Path(p, p[i].a))

NameAndTypePath(p, i) ==
    AndThen(At(p, i, "NameAndType"), AndThen(Utf8Path(p, p[i].a), Utf8Path(p, p[i].b)))

RefPath(p, i, k) ==
    AndThen(At(p, i, k), AndThen(ClassPath(p, p[i].a), NameAndTypePath(p, p[i].b)))

\* The strings a correctly constructed pool holds for a getter.
ClassNameOf(p, i) == p[p[i].a].s

NameAndTypeOf(p, i) == [name |-> p[p[i].a].s, descriptor |-> p[p[i].b].s]

RefOf(p, i) ==
    [class_name |-> ClassNameOf(p, p[i].a), name_and_type |-> NameAndTypeOf(p, p[i].b)]

PathOf(p, c) ==
    CASE c[1] = "get_utf8" -> Utf8Path(p, c[2])
      [] c[1] = "get_class_name" -> ClassPath(p, c[2])
      [] c[1] = "get_name_and_type" -> NameAndTypePath(p, c[2])
      [] c[1] = "get_method_ref" -> RefPath(p, c[2], "Methodref")
      [] c[1] = "get_field_ref" -> RefPath(p, c[2], "Fieldref")

ValueOf(p, c) ==
    CASE c[1] = "get_utf8" -> p[c[2]].s
      [] c[1] = "get_class_name" -> ClassNameOf(p, c[2])
      [] c[1] = "get_name_and_type" -> NameAndTypeOf(p, c[2])
      [] c[1] = "get_method_ref" -> RefOf(p, c[2])
      [] c[1] = "get_field_ref" -> RefOf(p, c[2])

Dereferenced == call # <<>> /\ call[1] # "get_entry"

TypeMismatches == {"Expected Utf8 attribute", "Expected Class attribute"}

\* C5: a getter whose indices all lead to entries of the right kinds returns
\* Ok with the strings found by following them; a getter that meets an entry of
\* the wrong kind, at the index asked for or at one it follows, returns an Err
\* with a type-mismatch message: it neither panics nor returns a value.
C5_Getters ==
    Dereferenced =>
        /\ PathOf(pool, call) = "ok" => ret = PoolOk(ValueOf(pool, call))
        /\ PathOf(pool, call) = "wrong" => ret.status = "Err" /\ ret.msg \in TypeMismatches

\* get_method_ref on a Methodref entry met a wrong entry further on, and failed.
C5_Witness ==
    /\ Dereferenced
    /\ call[1] = "get_method_ref"
    /\ At(pool, call[2], "Methodref") = "ok"
    /\ PathOf(pool, call) = "wrong"
    /\ ret.status = "Err"

----------------------------------------------------------------------------
(* 32-bit signed arithmetic: the i32 of StackValue::Integer *)

I32Max == 2147483647

I32Min == (-I32Max) - 1

\* The outcome of an i32 operation that overflowed or not: with overflow checks
\* the overflow panics, without them the result wraps.
Checked(overflowed, exact, wrapped) ==
    IF ~overflowed THEN [panic |-> FALSE, val |-> exact]
    ELSE IF overflow_checks THEN [panic |-> TRUE, val |-> 0]
    ELSE [panic |-> FALSE, val |-> wrapped]

AddOverflows(a, b) == (b > 0 /\ a > I32Max - b) \/ (b < 0 /\ a < I32Min - b)

\* a + b brought back into the i32 range by 2^32.
AddWrapped(a, b) ==
    IF b > 0 THEN ((a - I32Max) - 1) + ((b - I32Max) - 1)
    ELSE ((a + I32Max) + 1) + ((b + I32Max) + 1)

\* value1 + value2
AddI32(a, b) ==
    IF AddOverflows(a, b) THEN Checked(TRUE, 0, AddWrapped(a, b))
    ELSE Checked(FALSE, a + b, 0)

SubOverflows(a, b) == (b < 0 /\ a > I32Max + b) \/ (b > 0 /\ a < I32Min + b)

SubWrapped(a, b) ==
    IF b < 0 THEN ((a - I32Max) - 1) - ((b + I32Max) + 1)
    ELSE ((a + I32Max) + 1) - ((b - I32Max) - 1)

\* value1 - value2
SubI32(a, b) ==
    IF SubOverflows(a, b) THEN Checked(TRUE, 0, SubWrapped(a, b))
    ELSE Checked(FALSE, a - b, 0)

\* Byte k of the two's complement form of a.
Limb(a, k) ==
    IF k = 0 THEN a % 256
    ELSE IF k = 1 THEN (a \div 256) % 256
    ELSE IF k = 2 THEN (a \div 65536) % 256
    ELSE (a \div 16777216) % 256

\* The columns of the long multiplication of a and b, low byte first, each
\* with the carry of the column before it.
Col0(a, b) == Limb(a, 0) * Limb(b, 0)

Col1(a, b) == Limb(a, 0) * Limb(b, 1) + Limb(a, 1) * Limb(b, 0) + Col0(a, b) \div 256

Col2(a, b) ==
    Limb(a, 0) * Limb(b, 2) + Limb(a, 1) * Limb(b, 1) + Limb(a, 2) * Limb(b, 0)
    + Col1(a, b) \div 256

Col3(a, b) ==
    Limb(a, 0) * Limb(b, 3) + Limb(a, 1) * Limb(b, 2) + Limb(a, 2) * Limb(b, 1)
    + Limb(a, 3) * Limb(b, 0) + Col2(a, b) \div 256

\* The i32 with these four bytes, high byte first.
FromLimbs(l3, l2, l1, l0) ==
    (IF l3 >= 128 THEN l3 - 256 ELSE l3) * 16777216 + l2 * 65536 + l1 * 256 + l0

\* The low 32 bits of a * b.
MulWrapped(a, b) ==
    FromLimbs(Col3(a, b) % 256, Col2(a, b) % 256, Col1(a, b) % 256, Col0(a, b) % 256)

Abs(a) == IF a < 0 THEN -a ELSE a

\* |a| * |b| <= I32Max, and |a| * |b| = I32Max + 1, for a and b above I32Min
\* and not 0.
ProductWithin(a, b) == Abs(a) <= I32Max \div Abs(b)

ProductIsMin(a, b) ==
    /\ I32Max % Abs(b) = Abs(b) - 1
    /\ Abs(a) - 1 = I32Max \div Abs(b)

MulOverflows(a, b) ==
    IF a = 0 \/ b = 0 THEN FALSE
    ELSE IF a = I32Min THEN b # 1
    ELSE IF b = I32Min THEN a # 1
    ELSE IF (a < 0) = (b < 0) THEN ~ProductWithin(a, b)
    ELSE ~ProductWithin(a, b) /\ ~ProductIsMin(a, b)

\* value1 * value2
MulI32(a, b) == Checked(MulOverflows(a, b), MulWrapped(a, b), MulWrapped(a, b))

----------------------------------------------------------------------------
(* The interpreter: runtime/interpreter.rs.  What an instruction works on  *)
(* is the record [locals, stack, heap]: the StackFrame and the storage of  *)
(* the arrays.  An IntArray is an Rc to its storage, so a reference value  *)
(* is the address of the storage in heap and a clone of it is the same     *)
(* address.  The outcome of a function of the interpreter is the record    *)
(* [res, val, s]: res is "Ok", the name of an InterpreterError, or "Panic"; *)
(* s is what it left of the frame and the heap, popped operands included.  *)

Integer(i) == [type |-> "Integer", v |-> i]

IntegerArrayReference(a) == [type |-> "IntegerArrayReference", v |-> a]

Empty == [type |-> "Empty", v |-> 0]

IOk(v, s) == [res |-> "Ok", val |-> v, s |-> s]

IErr(e, s) == [res |-> e, val |-> 0, s |-> s]

IPanic(s) == [res |-> "Panic", val |-> 0, s |-> s]

InterpreterErrors == {"UnhandledInstruction", "UnexpectedOperand", "InvalidArrayType"}

\* The ? operator on a Result<_, InterpreterError>; a panic unwinds the same way.
ITry(r, F(_)) == IF r.res = "Ok" THEN F(r) ELSE r

\* Vec::pop() with the unwrap() every caller applies to it: a panic on None.
pop_stack(s) ==
    IF Len(s.stack) = 0 THEN IPanic(s)
    ELSE IOk(s.stack[Len(s.stack)], [s EXCEPT !.stack = Take(@, Len(@) - 1)])

push_stack(s, operand) == [s EXCEPT !.stack = Append(@, operand)]

\* &self.locals[index]: a panic when there is no such slot.
get_local(s, i) ==
    IF i >= Len(s.locals) THEN IPanic(s) ELSE IOk(s.locals[i + 1], s)

set_local(s, i, var) ==
    IF i >= Len(s.locals) THEN IPanic(s) ELSE IOk(0, [s EXCEPT !.locals[i + 1] = var])

push_int(s, integer) == push_stack(s, Integer(integer))

pop_int(s) ==
    ITry(pop_stack(s), LAMBDA operand :
    IF operand.val.type = "Integer" THEN IOk(operand.val.v, operand.s)
    ELSE IErr("UnexpectedOperand", operand.s))

pop_int_array(s) ==
    ITry(pop_stack(s), LAMBDA operand :
    IF operand.val.type = "IntegerArrayReference" THEN IOk(operand.val.v, operand.s)
    ELSE IErr("UnexpectedOperand", operand.s))

get_int_local(s, i) ==
    ITry(get_local(s, i), LAMBDA operand :
    IF operand.val.type = "Integer" THEN IOk(operand.val.v, operand.s)
    ELSE IErr("UnexpectedOperand", operand.s))

set_int_local(s, i, value) == set_local(s, i, Integer(value))

new_frame(max_stack, max_locals) ==
    [locals |-> [i \in 1..max_locals |-> Empty], stack |-> <<>>]

\* The storage of an array: its length and the elements that are not 0, as
\* pairs <<index, value>>.
Storage(length) == [length |-> length, cells |-> {}]

Element(storage, i) ==
    IF \E c \in storage.cells : c[1] = i
    THEN (CHOOSE c \in storage.cells : c[1] = i)[2]
    ELSE 0

WithElement(storage, i, value) ==
    [storage EXCEPT !.cells =
        {c \in @ : c[1] # i} \cup (IF value = 0 THEN {} ELSE {<<i, value>>})]

\* index as usize is in the Vec: a negative i32 becomes a usize past any length.
InRange(storage, i) == i >= 0 /\ i < storage.length

\* IntArray::get: self.array.borrow()[index], a panic out of range.
IntArray_get(s, array, i) ==
    IF InRange(s.heap[array], i) THEN IOk(Element(s.heap[array], i), s) ELSE IPanic(s)

\* IntArray::set storing without a look at the length.
IntArray_set_unchecked(s, array, i, value) ==
    IOk(0, [s EXCEPT !.heap[array] = WithElement(@, i, value)])

\* IntArray::set: self.array.borrow_mut()[index] = value
IntArray_set(s, array, i, value) ==
    IF InRange(s.heap[array], i)
    THEN IOk(0, [s EXCEPT !.heap[array] = WithElement(@, i, value)])
    ELSE IPanic(s)

\* IntArray::new: vec![0; size]; a negative count is a usize no Vec can hold.
IntArray_new(s, count) ==
    IF count < 0 THEN IPanic(s)
    ELSE IOk(Len(s.heap) + 1, [s EXCEPT !.heap = Append(@, Storage(count))])

\* push_int of a sum, difference or product, which panics when it overflowed
\* and the build checks overflow.
push_checked(s, x) == IF x.panic THEN IPanic(s) ELSE IOk(0, push_int(s, x.val))

Aload1(s) ==
    ITry(get_local(s, 1), LAMBDA operand : IOk(0, push_stack(operand.s, operand.val)))

Astore1(s) ==
    ITry(pop_stack(s), LAMBDA operand : set_local(operand.s, 1, operand.val))

\* Dup with operand.clone() copying the storage of an array.
Dup_copying(s) ==
    ITry(pop_stack(s), LAMBDA operand :
    IF operand.val.type = "IntegerArrayReference"
    THEN IOk(0, [operand.s EXCEPT
                    !.stack = Append(Append(@, operand.val),
                                     IntegerArrayReference(Len(operand.s.heap) + 1)),
                    !.heap = Append(@, operand.s.heap[operand.val.v])])
    ELSE IOk(0, push_stack(push_stack(operand.s, operand.val), operand.val)))

Dup(s) ==
    ITry(pop_stack(s), LAMBDA operand :
    IOk(0, push_stack(push_stack(operand.s, operand.val), operand.val)))

Iadd(s) ==
    ITry(pop_int(s), LAMBDA value2 :
    ITry(pop_int(value2.s), LAMBDA value1 :
    push_checked(value1.s, AddI32(value1.val, value2.val))))

Iaload(s) ==
    ITry(pop_int(s), LAMBDA i :
    ITry(pop_int_array(i.s), LAMBDA array :
    ITry(IntArray_get(array.s, array.val, i.val), LAMBDA value :
    IOk(0, push_int(value.s, value.val)))))

Iastore(s) ==
    ITry(pop_int(s), LAMBDA value :
    ITry(pop_int(value.s), LAMBDA i :
    ITry(pop_int_array(i.s), LAMBDA array :
    IntArray_set(array.s, array.val, i.val, value.val))))

Iconst(s, n) == IOk(0, push_int(s, n))

Imul(s) ==
    ITry(pop_int(s), LAMBDA value2 :
    ITry(pop_int(value2.s), LAMBDA value1 :
    push_checked(value1.s, MulI32(value1.val, value2.val))))

Iload(s, i) ==
    ITry(get_int_local(s, i), LAMBDA int : IOk(0, push_int(int.s, int.val)))

Istore(s, i) ==
    ITry(pop_int(s), LAMBDA int : set_int_local(int.s, i, int.val))

Isub(s) ==
    ITry(pop_int(s), LAMBDA value2 :
    ITry(pop_int(value2.s), LAMBDA value1 :
    push_checked(value1.s, SubI32(value1.val, value2.val))))

\* Newarray falling back to an integer array for every element type.
Newarray_any_type(s, atype) ==
    ITry(pop_int(s), LAMBDA count :
    ITry(IntArray_new(count.s, count.val), LAMBDA array :
    IOk(0, push_stack(array.s, IntegerArrayReference(array.val)))))

Newarray(s, atype) ==
    ITry(pop_int(s), LAMBDA count :
    IF atype = 10 THEN
        ITry(IntArray_new(count.s, count.val), LAMBDA array :
        IOk(0, push_stack(array.s, IntegerArrayReference(array.val))))
    ELSE IErr("InvalidArrayType", count.s))

Sipush(s, value) == IOk(0, push_int(s, value))

Return(s) == IOk(0, s)

\* An instruction is [op, arg]: the variant and its operand (0 without one).
Ins(op, arg) == [op |-> op, arg |-> arg]

\* The last arm taking the instruction for done.
unhandled_instruction_skipped(x, s) == IOk(0, s)

\* Line 301, x => Err(InterpreterError::UnhandledInstruction(*x)): the error
\* carries the instruction.
unhandled_instruction(x, s) == [res |-> "UnhandledInstruction", val |-> x, s |-> s]

interpret_instruction(instruction, s) ==
    CASE instruction.op = "Aload1" -> Aload1(s)
      [] instruction.op = "Astore1" -> Astore1(s)
      [] instruction.op = "Dup" -> Dup(s)
      [] instruction.op = "Iadd" -> Iadd(s)
      [] instruction.op = "Iaload" -> Iaload(s)
      [] instruction.op = "Iastore" -> Iastore(s)
      [] instruction.op = "Iconst0" -> Iconst(s, 0)
      [] instruction.op = "Iconst1" -> Iconst(s, 1)
      [] instruction.op = "Iconst2" -> Iconst(s, 2)
      [] instruction.op = "Iconst3" -> Iconst(s, 3)
      [] instruction.op = "Iconst4" -> Iconst(s, 4)
      [] instruction.op = "Iconst5" -> Iconst(s, 5)
      [] instruction.op = "Imul" -> Imul(s)
      [] instruction.op = "Iload" -> Iload(s, instruction.arg)
      [] instruction.op = "Iload0" -> Iload(s, 0)
      [] instruction.op = "Iload1" -> Iload(s, 1)
      [] instruction.op = "Iload2" -> Iload(s, 2)
      [] instruction.op = "Iload3" -> Iload(s, 3)
      [] instruction.op = "Istore" -> Istore(s, instruction.arg)
      [] instruction.op = "Istore0" -> Istore(s, 0)
      [] instruction.op = "Istore1" -> Istore(s, 1)
      [] instruction.op = "Istore2" -> Istore(s, 2)
      [] instruction.op = "Istore3" -> Istore(s, 3)
      [] instruction.op = "Isub" -> Isub(s)
      [] instruction.op = "Newarray" -> Newarray(s, instruction.arg)
      [] instruction.op = "Sipush" -> Sipush(s, instruction.arg)
      [] instruction.op = "Return" -> Return(s)
      [] OTHER -> unhandled_instruction(instruction, s)

----------------------------------------------------------------------------
(* interpret as a state machine: one instruction of method.code at a time *)

NoInstruction == Ins("", 0)

Running == [kind |-> "Running", error |-> "", instruction |-> NoInstruction]

\* The loop ran to its end and the frame was printed.
Finished == [kind |-> "Finished", error |-> "", instruction |-> NoInstruction]

\* Err(e): e is printed and interpret returns.
Failed(e, instruction) == [kind |-> "Err", error |-> e, instruction |-> instruction]

Panicked == [kind |-> "Panic", error |-> "", instruction |-> NoInstruction]

\* The match on res leaving every Err behind and going on with the loop.
match_res_resuming(r, instruction) ==
    IF r.res = "Panic" THEN Panicked ELSE Running

\* Lines 128-134: the match on the result of interpret_instruction.
match_res(r, instruction) ==
    IF r.res = "Ok" THEN Running
    ELSE IF r.res = "Panic" THEN Panicked
    ELSE Failed(r.res, instruction)

Machine == [locals |-> stack_frame.locals, stack |-> stack_frame.stack, heap |-> heap]

\* The next instruction of the for loop, when there is one.
Next_instruction == method.code[ip + 1]

Taken(ops) ==
    /\ outcome.kind = "Running"
    /\ ip < Len(method.code)
    /\ Next_instruction.op \in ops

Apply(r, instruction) ==
    /\ ip' = ip + 1
    /\ stack_frame' = [locals |-> r.s.locals, stack |-> r.s.stack]
    /\ heap' = r.s.heap
    /\ outcome' = match_res(r, instruction)
    /\ UNCHANGED <<overflow_checks, method, readerVars, poolVars>>

\* One turn of the loop of interpret (lines 126-135).
Interpret == Apply(interpret_instruction(Next_instruction, Machine), Next_instruction)

HandledOps ==
    {"Aload1", "Astore1", "Dup", "Iadd", "Iaload", "Iastore", "Iconst0", "Iconst1",
     "Iconst2", "Iconst3", "Iconst4", "Iconst5", "Imul", "Iload", "Iload0", "Iload1",
     "Iload2", "Iload3", "Istore", "Istore0", "Istore1", "Istore2", "Istore3", "Isub",
     "Newarray", "Sipush", "Return"}

\* Variants of Instruction that interpret_instruction has no arm for.
UnhandledOps == {"Nop", "Goto"}

ExecAload1 == Taken({"Aload1"}) /\ Interpret

ExecAstore1 == Taken({"Astore1"}) /\ Interpret

ExecDup == Taken({"Dup"}) /\ Interpret

ExecIadd == Taken({"Iadd"}) /\ Interpret

ExecIaload == Taken({"Iaload"}) /\ Interpret

ExecIastore == Taken({"Iastore"}) /\ Interpret

ExecIconst ==
    Taken({"Iconst0", "Iconst1", "Iconst2", "Iconst3", "Iconst4", "Iconst5"}) /\ Interpret

ExecImul == Taken({"Imul"}) /\ Interpret

ExecIload == Taken({"Iload"}) /\ Interpret

ExecIloadN == Taken({"Iload0", "Iload1", "Iload2", "Iload3"}) /\ Interpret

ExecIstore == Taken({"Istore"}) /\ Interpret

ExecIstoreN == Taken({"Istore0", "Istore1", "Istore2", "Istore3"}) /\ Interpret

ExecIsub == Taken({"Isub"}) /\ Interpret

ExecNewarray == Taken({"Newarray"}) /\ Interpret

ExecSipush == Taken({"Sipush"}) /\ Interpret

ExecReturn == Taken({"Return"}) /\ Interpret

ExecUnhandled == Taken(UnhandledOps) /\ Interpret

\* Lines 137-138: the loop is over and the frame is printed.
PrintFrame ==
    /\ outcome.kind = "Running"
    /\ ip = Len(method.code)
    /\ outcome' = Finished
    /\ UNCHANGED <<overflow_checks, method, ip, stack_frame, heap, readerVars, poolVars>>

----------------------------------------------------------------------------
(* The methods interpreted *)

MaxCodeLen == 3

\* Every variant with an arm, with operands on both sides of what the arm
\* accepts, and two variants without one.
FullMenu ==
    {Ins(op, 0) : op \in (HandledOps \cup UnhandledOps) \ {"Iload", "Istore", "Newarray", "Sipush"}}
    \cup {Ins(op, arg) : op \in {"Iload", "Istore"}, arg \in {0, 5}}
    \cup {Ins("Newarray", atype) : atype \in {10, 4}}
    \cup {Ins("Sipush", value) : value \in {-1, 32767}}

SmallMenu ==
    {Ins("Iconst2", 0), Ins("Sipush", -1), Ins("Dup", 0), Ins("Iadd", 0),
     Ins("Astore1", 0), Ins("Aload1", 0), Ins("Istore1", 0), Ins("Iload1", 0),
     Ins("Newarray", 10), Ins("Iastore", 0), Ins("Return", 0), Ins("Nop", 0)}

Alloc == <<Ins("Iconst2", 0), Ins("Newarray", 10)>>

\* What an instruction of the full menu is run after.
Prefixes ==
    {<<>>,
     <<Ins("Sipush", 7)>>,
     <<Ins("Sipush", 7), Ins("Sipush", -3)>>,
     Alloc \o <<Ins("Iconst1", 0)>>,
     Alloc \o <<Ins("Iconst1", 0), Ins("Iconst5", 0)>>,
     Alloc \o <<Ins("Iconst2", 0)>>,
     Alloc \o <<Ins("Sipush", -1), Ins("Iconst5", 0)>>,
     Alloc \o <<Ins("Sipush", -1)>>,
     Alloc \o <<Ins("Iconst2", 0), Ins("Iconst5", 0)>>,
     Alloc \o <<Ins("Astore1", 0), Ins("Iconst4", 0), Ins("Istore0", 0)>>}

Suffixes == {<<>>, <<Ins("Iconst3", 0)>>}

\* A number near 2^30 and sums, differences and products of it.
Large == <<Ins("Sipush", 32767), Ins("Dup", 0), Ins("Imul", 0)>>

Negated == <<Ins("Sipush", -1), Ins("Imul", 0)>>

OverflowPrograms ==
    {Large \o neg \o <<Ins("Dup", 0)>> \o twice \o <<Ins(op, 0)>> :
        neg \in {<<>>, Negated},
        twice \in {<<>>, <<Ins("Iconst2", 0), Ins("Imul", 0)>>, Negated},
        op \in {"Iadd", "Isub", "Imul"}}

\* Ways of spreading the reference on top of the stack: whether a second
\* reference is left under the top, and whether local 1 holds one.
Spreads ==
    {[code |-> <<Ins("Dup", 0)>>, under |-> TRUE, local |-> FALSE],
     [code |-> <<Ins("Dup", 0), Ins("Dup", 0)>>, under |-> TRUE, local |-> FALSE],
     [code |-> <<Ins("Dup", 0), Ins("Astore1", 0)>>, under |-> FALSE, local |-> TRUE],
     [code |-> <<Ins("Astore1", 0), Ins("Aload1", 0)>>, under |-> FALSE, local |-> TRUE],
     [code |-> <<Ins("Astore1", 0), Ins("Aload1", 0), Ins("Aload1", 0)>>,
      under |-> TRUE, local |-> TRUE],
     [code |-> <<Ins("Dup", 0), Ins("Astore1", 0), Ins("Dup", 0)>>,
      under |-> TRUE, local |-> TRUE]}

IconstOf(n) == Ins(<<"Iconst0", "Iconst1", "Iconst2", "Iconst3", "Iconst4", "Iconst5">>[n + 1], 0)

\* The reference the load goes through: the one under the stored-through one,
\* or the one of local 1.
LoadsOf(spread) ==
    (IF spread.under THEN {<<>>} ELSE {})
    \cup (IF spread.local THEN {<<Ins("Aload1", 0)>>} ELSE {})

\* An array is allocated, its reference spread, a value stored through the
\* reference on top and an element loaded through another one.
AliasProgramsOf(spread) ==
    {Alloc \o spread.code \o <<IconstOf(i), IconstOf(v), Ins("Iastore", 0)>>
           \o load \o <<IconstOf(j), Ins("Iaload", 0)>> :
        load \in LoadsOf(spread), i \in {0, 1}, j \in {0, 1}, v \in {3, 5}}

AliasPrograms == UNION {AliasProgramsOf(spread) : spread \in Spreads}

\* Two values pushed on the empty stack and an operation on them.
Pushes ==
    {Ins("Iconst2", 0), Ins("Iconst3", 0), Ins("Sipush", 7), Ins("Sipush", -3),
     Ins("Sipush", 32767), Ins("Sipush", -32768)}

ArithmeticPrograms ==
    {<<a, b, Ins(op, 0)>> : a \in Pushes, b \in Pushes, op \in {"Iadd", "Isub", "Imul"}}

Programs ==
    SeqsUpTo(SmallMenu, MaxCodeLen)
    \cup ArithmeticPrograms
    \cup {prefix \o <<instruction>> \o suffix :
            prefix \in Prefixes, instruction \in FullMenu, suffix \in Suffixes}
    \cup OverflowPrograms
    \cup AliasPrograms

LocalsChoices == {1, 4}

Methods ==
    {[max_stack |-> 4, max_locals |-> max_locals, code |-> code] :
        max_locals \in LocalsChoices, code \in Programs}

InitInterp ==
    /\ overflow_checks \in BOOLEAN
    /\ method \in Methods
    /\ ip = 0
    /\ stack_frame = new_frame(method.max_stack, method.max_locals)
    /\ heap = <<>>
    /\ outcome = Running
    /\ ReaderIdle
    /\ PoolIdle

NextInterp ==
    \/ ExecAload1
    \/ ExecAstore1
    \/ ExecDup
    \/ ExecIadd
    \/ ExecIaload
    \/ ExecIastore
    \/ ExecIconst
    \/ ExecImul
    \/ ExecIload
    \/ ExecIloadN
    \/ ExecIstore
    \/ ExecIstoreN
    \/ ExecIsub
    \/ ExecNewarray
    \/ ExecSipush
    \/ ExecReturn
    \/ ExecUnhandled
    \/ PrintFrame

SpecInterp == InitInterp /\ [][NextInterp]_vars

----------------------------------------------------------------------------
(* Claims about the interpreter *)

\* interpret has taken a Return from the sequence and has not ended.
ReturnTaken ==
    /\ outcome.kind = "Running"
    /\ \E k \in 1..ip : method.code[k].op = "Return"

FrameUnchanged == stack_frame' = stack_frame /\ heap' = heap

\* C8: once a Return has been executed, the only thing interpret does is to
\* end successfully: it executes no further instruction of the sequence and
\* leaves the frame as the Return found it.
C8_ReturnEnds ==
    [][ReturnTaken => (outcome'.kind = "Finished" /\ ip' = ip /\ FrameUnchanged)]_vars

\* What the next instruction gives on the frame as it is.
Given == interpret_instruction(Next_instruction, Machine)

Executing == outcome.kind = "Running" /\ ip < Len(method.code)

\* C9: every step of interpret executes the next instruction of the sequence
\* once, on the frame the one before left; an instruction that returns an
\* InterpreterError ends interpret with that error and that instruction, and
\* from then on nothing is executed and the frame does not change.
C9_StopsAtFirstError ==
    [][/\ ip' \in {ip, ip + 1}
       /\ ip' = ip + 1 =>
            /\ Executing
            /\ stack_frame' = [locals |-> Given.s.locals, stack |-> Given.s.stack]
            /\ heap' = Given.s.heap
       /\ ip' = ip => FrameUnchanged
       /\ (Executing /\ Given.res \in InterpreterErrors) =>
            outcome' = Failed(Given.res, Next_instruction)
       /\ outcome.kind = "Err" => (ip' = ip /\ FrameUnchanged /\ outcome' = outcome)]_vars

\* interpret ended with an error after two instructions, with more to come.
C9_Witness ==
    /\ outcome.kind = "Err"
    /\ outcome.error = "UnexpectedOperand"
    /\ ip = 3
    /\ ip < Len(method.code)
    /\ Len(stack_frame.stack) > 0

IsReference(value) == value.type = "IntegerArrayReference"

Top(stack) == stack[Len(stack)]

IconstValue(instruction) ==
    CASE instruction.op = "Iconst0" -> 0
      [] instruction.op = "Iconst1" -> 1
      [] instruction.op = "Iconst2" -> 2
      [] instruction.op = "Iconst3" -> 3
      [] instruction.op = "Iconst4" -> 4
      [] instruction.op = "Iconst5" -> 5

\* In a program that stores once: where, and the index and the value stored.
StoreAt(code) == CHOOSE k \in 1..Len(code) : code[k].op = "Iastore"

StoredIndex(code) == IconstValue(code[StoreAt(code) - 2])

StoredValue(code) == IconstValue(code[StoreAt(code) - 1])

\* The index the last instruction, an Iaload, loads from.
LoadedIndex(code) == IconstValue(code[Len(code) - 1])

\* What the load sees when the two references share their storage.
Observed(code) == IF LoadedIndex(code) = StoredIndex(code) THEN StoredValue(code) ELSE 0

\* The last instruction of a program that spreads a reference, stores through
\* one copy and loads through another is about to run.
AtAliasLoad ==
    /\ method.code \in AliasPrograms
    /\ outcome.kind = "Running"
    /\ ip = Len(method.code) - 1

\* The next instruction copies the reference on top of the stack / in local 1.
CopiesTop(op) == Taken({op}) /\ Len(stack_frame.stack) > 0 /\ IsReference(Top(stack_frame.stack))

CopiesLocal1 ==
    Taken({"Aload1"}) /\ Len(stack_frame.locals) > 1 /\ IsReference(stack_frame.locals[2])

\* C10: Dup, Astore1 and Aload1 on an array reference leave the same reference
\* in the new place and allocate and copy nothing; and when a reference has
\* been spread over stack slots and local 1 by them, the value Iastore wrote
\* at an index through one copy is the value Iaload reads at that index
\* through another copy.
C10_SharedStorage ==
    [][/\ CopiesTop("Dup") =>
            /\ stack_frame'.stack = Append(stack_frame.stack, Top(stack_frame.stack))
            /\ heap' = heap
       /\ (CopiesTop("Astore1") /\ Len(stack_frame.locals) > 1) =>
            /\ stack_frame'.locals[2] = Top(stack_frame.stack)
            /\ heap' = heap
       /\ CopiesLocal1 =>
            /\ stack_frame'.stack = Append(stack_frame.stack, stack_frame.locals[2])
            /\ heap' = heap
       /\ AtAliasLoad =>
            /\ outcome'.kind = "Running"
            /\ Top(stack_frame'.stack) = Integer(Observed(method.code))]_vars

\* A value stored through the copy on the stack was loaded through local 1,
\* and there is one array.
C10_Witness ==
    /\ method.code \in AliasPrograms
    /\ ip = Len(method.code)
    /\ method.code[ip - 2].op = "Aload1"
    /\ Len(heap) = 1
    /\ Len(stack_frame.stack) > 0
    /\ Top(stack_frame.stack) = Integer(5)
    /\ IsReference(stack_frame.locals[2])

\* The stack has an integer on top and an integer below it.
TwoIntegers ==
    /\ Len(stack_frame.stack) >= 2
    /\ Top(stack_frame.stack).type = "Integer"
    /\ stack_frame.stack[Len(stack_frame.stack) - 1].type = "Integer"

\* The top of the stack, the value below it, and what is below the two.
Value2 == Top(stack_frame.stack).v

Value1 == stack_frame.stack[Len(stack_frame.stack) - 1].v

Rest == Take(stack_frame.stack, Len(stack_frame.stack) - 2)

\* value1 OP value2 is an i32, and that number.
Representable(op) ==
    CASE op = "Iadd" -> ~AddOverflows(Value1, Value2)
      [] op = "Isub" -> ~SubOverflows(Value1, Value2)
      [] op = "Imul" -> ~MulOverflows(Value1, Value2)

Exact(op) ==
    CASE op = "Iadd" -> Value1 + Value2
      [] op = "Isub" -> Value1 - Value2
      [] op = "Imul" -> Value1 * Value2

\* value1 OP value2 as an i32: reduced modulo 2^32 into the i32 range.
Reduced(op) ==
    IF Representable(op) THEN Exact(op)
    ELSE CASE op = "Iadd" -> AddWrapped(Value1, Value2)
           [] op = "Isub" -> SubWrapped(Value1, Value2)
           [] op = "Imul" -> MulWrapped(Value1, Value2)

ArithmeticOps == {"Iadd", "Isub", "Imul"}

\* The step takes the top as value2 and the value below it as value1, keeps
\* the locals and the arrays, and leaves the rest of the stack with
\* Integer(value) on top.
PushesOnRest(value) ==
    /\ outcome'.kind = "Running"
    /\ stack_frame'.locals = stack_frame.locals
    /\ heap' = heap
    /\ stack_frame'.stack = Append(Rest, Integer(value))

\* C11: Iadd, Isub and Imul on two integers pop value2 (the top) and value1
\* (below it) and push value1 OP value2, and leave the locals and the rest of
\* the stack as they were; so a then b pushed on the empty stack and Isub
\* leave Integer(a - b) alone, and [Iconst2, Iconst3, Iadd] leaves
\* Integer(5) alone.
C11_OperandOrder ==
    [][/\ \A op \in ArithmeticOps :
            (Taken({op}) /\ TwoIntegers) => PushesOnRest(Reduced(op))
       /\ (Taken({"Isub"}) /\ ip = 2 /\ method.code[1].op = "Sipush"
                /\ method.code[2].op = "Sipush") =>
                stack_frame'.stack = <<Integer(method.code[1].arg - method.code[2].arg)>>
       /\ (Taken({"Iadd"}) /\ ip = 2 /\ method.code[1].op = "Iconst2"
                /\ method.code[2].op = "Iconst3") =>
                stack_frame'.stack = <<Integer(5)>>]_vars

\* What C11 says of the operations whose result is an i32.
OperandOrderWithinRange ==
    [][/\ \A op \in ArithmeticOps :
            (Taken({op}) /\ TwoIntegers /\ Representable(op)) => PushesOnRest(Exact(op))
       /\ (Taken({"Isub"}) /\ ip = 2 /\ method.code[1].op = "Sipush"
                /\ method.code[2].op = "Sipush") =>
                stack_frame'.stack = <<Integer(method.code[1].arg - method.code[2].arg)>>
       /\ (Taken({"Iadd"}) /\ ip = 2 /\ method.code[1].op = "Iconst2"
                /\ method.code[2].op = "Iconst3") =>
                stack_frame'.stack = <<Integer(5)>>]_vars

\* C12: Iadd, Isub and Imul on any two integers succeed and push value1 OP
\* value2 reduced modulo 2^32; a result outside the i32 range does not end
\* interpret.
C12_Wraparound ==
    [][\A op \in ArithmeticOps :
            (Taken({op}) /\ TwoIntegers) =>
                /\ outcome'.kind = "Running"
                /\ Len(stack_frame'.stack) > 0
                /\ Top(stack_frame'.stack) = Integer(Reduced(op))]_vars

IntegerLoads == {"Iload", "Iload0", "Iload1", "Iload2", "Iload3"}

\* The slot a local-load instruction addresses, and the kind it loads.
LoadedSlot(instruction) ==
    CASE instruction.op = "Iload" -> instruction.arg
      [] instruction.op = "Iload0" -> 0
      [] instruction.op = "Iload1" -> 1
      [] instruction.op = "Iload2" -> 2
      [] instruction.op = "Iload3" -> 3
      [] instruction.op = "Aload1" -> 1

LoadedKind(instruction) ==
    IF instruction.op = "Aload1" THEN "IntegerArrayReference" ELSE "Integer"

\* The next instruction is one of loads and its slot holds another kind of
\* value than it loads, the marker Empty included.
LoadsOtherKind(loads) ==
    /\ Taken(loads)
    /\ LoadedSlot(Next_instruction) < Len(stack_frame.locals)
    /\ stack_frame.locals[LoadedSlot(Next_instruction) + 1].type
            # LoadedKind(Next_instruction)

RefusesLoad ==
    /\ outcome' = Failed("UnexpectedOperand", Next_instruction)
    /\ stack_frame' = stack_frame

NoEmptyOnStack(stack) == \A k \in 1..Len(stack) : stack[k].type # "Empty"

\* C13: a local load whose slot holds Empty or a value of another kind than
\* the instruction loads fails with UnexpectedOperand and pushes nothing, and
\* no step puts Empty on the operand stack.
C13_LoadTypeChecked ==
    [][/\ LoadsOtherKind(IntegerLoads \cup {"Aload1"}) => RefusesLoad
       /\ NoEmptyOnStack(stack_frame'.stack)]_vars

\* What C13 says of the integer loads.
IntegerLoadsTypeChecked ==
    [][LoadsOtherKind(IntegerLoads) => RefusesLoad]_vars

\* Newarray is next and the count on top of the stack is an integer.
NewarrayOfCount ==
    /\ Taken({"Newarray"})
    /\ Len(stack_frame.stack) >= 1
    /\ Top(stack_frame.stack).type = "Integer"

Count == Top(stack_frame.stack).v

BelowCount == Take(stack_frame.stack, Len(stack_frame.stack) - 1)

\* The array at address a has this length and holds 0 everywhere.
ZeroFilled(storages, a, length) ==
    /\ storages[a].length = length
    /\ \A i \in 0..(length - 1) : Element(storages[a], i) = 0

\* C14: Newarray with element type 10 and an integer count takes the count
\* off the stack and puts there a reference to an array that did not exist
\* before, has that length and holds 0 everywhere; with another element type
\* it fails with InvalidArrayType, allocates nothing and pushes nothing.
C14_Newarray ==
    [][/\ (NewarrayOfCount /\ Next_instruction.arg = 10 /\ Count >= 0) =>
            /\ outcome'.kind = "Running"
            /\ Len(heap') = Len(heap) + 1
            /\ Take(heap', Len(heap)) = heap
            /\ ZeroFilled(heap', Len(heap'), Count)
            /\ stack_frame'.stack = Append(BelowCount, IntegerArrayReference(Len(heap')))
            /\ stack_frame'.locals = stack_frame.locals
       /\ (NewarrayOfCount /\ Next_instruction.arg # 10) =>
            /\ outcome' = Failed("InvalidArrayType", Next_instruction)
            /\ heap' = heap
            /\ stack_frame'.stack = BelowCount
            /\ stack_frame'.locals = stack_frame.locals]_vars

\* An array of 2 was allocated, and a Newarray of another element type then
\* failed and left the one reference on the stack.
C14_Witness ==
    /\ outcome.kind = "Err"
    /\ outcome.error = "InvalidArrayType"
    /\ outcome.instruction.op = "Newarray"
    /\ Len(heap) = 1
    /\ ZeroFilled(heap, 1, 2)
    /\ stack_frame.stack = <<IntegerArrayReference(1)>>

\* The value k places under the top of the stack (0 is the top).
Under(k) == stack_frame.stack[Len(stack_frame.stack) - k]

\* Iaload is next on an index and an array, Iastore on a value, an index and
\* an array.
LoadsElement ==
    /\ Taken({"Iaload"})
    /\ Len(stack_frame.stack) >= 2
    /\ Under(0).type = "Integer"
    /\ IsReference(Under(1))

StoresElement ==
    /\ Taken({"Iastore"})
    /\ Len(stack_frame.stack) >= 3
    /\ Under(0).type = "Integer"
    /\ Under(1).type = "Integer"
    /\ IsReference(Under(2))

\* The index is negative or not less than the length of the array.
OutOfRange(i, array) == i.v < 0 \/ i.v >= heap[array.v].length

\* The access did not end as a result interpret handles: interpret did not
\* go on and did not return after printing an InterpreterError; the error of
\* the indexing left interpret for its caller.
LeftToCaller == outcome' = Panicked

\* C15: Iaload and Iastore with an index that is negative or not less than
\* the length of the array end in an error that leaves interpret for its
\* caller, and every array holds what it held before.
C15_OutOfRange ==
    [][/\ (LoadsElement /\ OutOfRange(Under(0), Under(1))) =>
            (LeftToCaller /\ heap' = heap)
       /\ (StoresElement /\ OutOfRange(Under(1), Under(2))) =>
            (LeftToCaller /\ heap' = heap)]_vars

\* An Iastore at index -1 of an array of 2 ended interpret and the array
\* holds what it held.
C15_Witness ==
    /\ outcome = Panicked
    /\ ip >= 3
    /\ method.code[ip].op = "Iastore"
    /\ method.code[ip - 2] = Ins("Sipush", -1)
    /\ heap = <<Storage(2)>>

\* C16: an instruction interpret_instruction has no arm for gives the error
\* UnhandledInstruction carrying that instruction, interpret ends with it,
\* and the operand stack, the locals and the arrays are as they were.
C16_Unhandled ==
    [][(Executing /\ Next_instruction.op \notin HandledOps) =>
            /\ Given.res = "UnhandledInstruction"
            /\ Given.val = Next_instruction
            /\ outcome' = Failed("UnhandledInstruction", Next_instruction)
            /\ stack_frame' = stack_frame
            /\ heap' = heap]_vars

\* A Goto after three instructions ended interpret, which left an array in
\* local 1 and an integer in local 0.
C16_Witness ==
    /\ outcome = Failed("UnhandledInstruction", Ins("Goto", 0))
    /\ ip = 6
    /\ method.code[ip] = Ins("Goto", 0)
    /\ IsReference(stack_frame.locals[2])
    /\ stack_frame.locals[1] = Integer(4)

\* How many values an instruction takes off the operand stack.
Pops(instruction) ==
    CASE instruction.op \in {"Astore1", "Dup", "Newarray", "Istore", "Istore0", "Istore1",
                             "Istore2", "Istore3"} -> 1
      [] instruction.op \in {"Iadd", "Isub", "Imul", "Iaload"} -> 2
      [] instruction.op = "Iastore" -> 3
      [] OTHER -> 0

\* C18: an instruction that pops operands, executed on a stack that holds
\* fewer values than it pops, returns an InterpreterError to interpret, which
\* ends with that error as with any other.
C18_PopOnShortStack ==
    [][(Executing /\ Len(stack_frame.stack) < Pops(Next_instruction)) =>
            /\ Given.res \in InterpreterErrors
            /\ outcome' = Failed(Given.res, Next_instruction)]_vars

----------------------------------------------------------------------------
(* More claims about the reader *)

\* In a Code body: where the code ends, the declared exception_table_length,
\* and the bytes after the exception table it declares.
CodeEnd(body) == 8 + Narrow(CodeLength(body))

ExceptionTableLength(body) == body[CodeEnd(body) + 1] * 256 + body[CodeEnd(body) + 2]

AfterExceptionTable(body) == Drop(body, CodeEnd(body) + 2 + 8 * ExceptionTableLength(body))

\* The body holds its code, the length of its exception table, the entries of
\* the table and the count of nested attributes after them.
HoldsExceptionTable(body) ==
    /\ Len(body) >= 8
    /\ ~LessThanWide(Len(body) - 8, CodeLength(body))
    /\ Len(body) >= CodeEnd(body) + 2
    /\ Len(body) >= CodeEnd(body) + 2 + 8 * ExceptionTableLength(body) + 2

\* The nested attributes read from the bytes that follow the exception table.
NestedAfterTable(body, cp) ==
    Try(read_u16(AfterExceptionTable(body)), LAMBDA attributes_count :
    read_attributes(attributes_count.buf, attributes_count.val, cp, <<>>))

\* The next step reads a Code attribute of the class whose body holds its
\* exception table, of handlers entries.
ReadsCodeWithTable(handlers) ==
    /\ pc = "attributes"
    /\ KnownAttributeAt(buffer, cf.cp_entries)
    /\ AttrName(buffer, cf.cp_entries) = ATTRIBUTE_CODE
    /\ HoldsExceptionTable(AttrBody(buffer))
    /\ ExceptionTableLength(AttrBody(buffer)) \in handlers

\* The Code attribute read has no exceptions, and when the bytes after the
\* exception table are a count and that many attributes and nothing more, it
\* was read successfully and has those attributes.
PassesOverTable(nested) ==
    /\ result' = NoError => cf'.attributes[Len(cf'.attributes)].exceptions = <<>>
    /\ (IsOk(nested) /\ Len(nested.buf) = 0) =>
            /\ result' = NoError
            /\ cf'.attributes[Len(cf'.attributes)].attributes = nested.val

\* C17: a Code attribute is read with an empty exception list, and with a
\* declared exception_table_length of n the 8 * n bytes of the entries are
\* passed over: the count of nested attributes and the nested attributes are
\* read from the bytes that follow the table.
C17_ExceptionTablePassedOver ==
    [][ReadsCodeWithTable(0..U16Max) =>
            PassesOverTable(NestedAfterTable(AttrBody(buffer), cf.cp_entries))]_vars

\* What C17 says of the Code attributes that declare no exception entry.
EmptyExceptionTable ==
    [][ReadsCodeWithTable({0}) =>
            PassesOverTable(NestedAfterTable(AttrBody(buffer), cf.cp_entries))]_vars

\* The next step reads a constant-pool-count of 0.
ReadsCountZero ==
    /\ pc = "cp_count"
    /\ Len(buffer) >= 2
    /\ buffer[1] = 0
    /\ buffer[2] = 0

\* C19: on a declared constant-pool-count of 0 read_class_file reads no entry
\* and goes on with the access flags, or fails with a ClassReaderError; it
\* does not crash and does not set out to read 65535 entries.
C19_ZeroPoolCount ==
    [][ReadsCountZero =>
            /\ result' # Panic
            /\ cf'.length # U16Max
            /\ \/ pc' = "access_flags" /\ result' = NoError /\ cf'.cp_entries = <<>>
               \/ pc' = "done" /\ result'.kind \in ClassReaderErrorKinds]_vars

----------------------------------------------------------------------------
(* More claims about the constant pool *)

OutOfBounds == PoolErr("Constant pool index out of bounds")

\* A getter was called with the index of an entry / with an index above size.
CalledWithin == call # <<>> /\ call[2] >= 1 /\ call[2] <= size(pool)

CalledAbove == call # <<>> /\ call[2] > size(pool)

CalledZero == call # <<>> /\ call[2] = 0

\* C20: the entry at logical index i is the one in slot i - 1 when
\* 1 <= i <= size, and there is none otherwise: index 0 and every index
\* above size make each getter return the out of bounds error, without a
\* crash.
C20_IndexBounds ==
    /\ (CalledWithin /\ call[1] = "get_entry") => ret = PoolOk(pool[call[2]])
    /\ (CalledZero \/ CalledAbove) => ret = OutOfBounds

\* What C20 says of the indices other than 0.
IndexAboveZero ==
    /\ (CalledWithin /\ call[1] = "get_entry") => ret = PoolOk(pool[call[2]])
    /\ CalledAbove => ret = OutOfBounds

====
